---- MODULE Spec2Model ----
(***************************************************************************)
(* Incident manager backend (Express + MySQL): team roles, platform        *)
(* managers, team membership management and incident updates.              *)
(*                                                                         *)
(* The database tables are the state; every route handler is one action    *)
(* that runs its middleware chain and its body to the response.            *)
(***************************************************************************)
EXTENDS Integers, Sequences, FiniteSets, TLC

(* ---------------------------------------------------------------------- *)
(* Bounds                                                                  *)
(* ---------------------------------------------------------------------- *)

\* rows the incident table may hold (ids 1..MaxIncidents, AUTO_INCREMENT)
MaxIncidents == 1

\* rows the team_user table may hold
MaxMemberships == 2

\* longest title or description a request carries
MaxTitleLen == 1

\* the user ids and team ids (AUTO_INCREMENT, from 1) of the rows and the
\* requests
UserIds == {1, 2}
TeamIds == {1, 2}

(* ---------------------------------------------------------------------- *)
(* Values                                                                  *)
(* ---------------------------------------------------------------------- *)

\* SQL NULL / JS null in an id column, and an absent (undefined) JS value
Null == 0 - 1
Undefined == 0 - 2

\* types/teamUser.ts
TeamRole == [USER |-> "user", MANAGER |-> "manager", ADMIN |-> "admin"]
Roles == {TeamRole.USER, TeamRole.MANAGER, TeamRole.ADMIN}

\* auth/authorization.ts
IncidentPermission ==
    [CREATE |-> "create", VIEW |-> "view", EDIT_STATUS |-> "edit_status",
     ASSIGN |-> "assign", DELETE |-> "delete"]
Permissions ==
    {IncidentPermission.CREATE, IncidentPermission.VIEW,
     IncidentPermission.EDIT_STATUS, IncidentPermission.ASSIGN,
     IncidentPermission.DELETE}

\* types/incident.ts
IncidentStatus ==
    [PENDING |-> "pending", UNDER_REVIEW |-> "under_review",
     ESCALATED |-> "escalated", RESOLVED |-> "resolved"]
validStatuses ==
    {IncidentStatus.PENDING, IncidentStatus.UNDER_REVIEW,
     IncidentStatus.ESCALATED, IncidentStatus.RESOLVED}

\* the optional `incident` argument when it is not passed
NoIncident ==
    [id |-> Undefined, title |-> <<"undefined">>,
     description |-> <<"undefined">>, status |-> "",
     team_id |-> Undefined, reported_by_user_id |-> Undefined,
     assigned_to_user_id |-> Undefined]

\* JS truthiness of a number | undefined | null
Truthy(n) == n # Undefined /\ n # Null /\ n # 0

(* ---------------------------------------------------------------------- *)
(* State                                                                   *)
(* ---------------------------------------------------------------------- *)

VARIABLES
    users,              \* ids of the rows of table users
    team,               \* ids of the rows of table team
    team_user,          \* rows of table team_user: [user_id, team_id, role]
    platform_manager,   \* user_id column of table platform_manager
    incident,           \* rows of table incident, indexed by id
    req,                \* the request being served
    res,                \* the response to it, NoResponse until it is sent
    call,               \* the last call of a permission function and its result
    formerAssignees,    \* history: <<incident id, user id>> of every assignee
                        \* an assignment has replaced
    inflight            \* the requests being served concurrently: for each
                        \* slot the request, the await it has reached, and
                        \* the response once sent

vars == <<users, team, team_user, platform_manager, incident, req, res, call,
          formerAssignees, inflight>>
db == <<users, team, team_user, platform_manager, incident>>

(* ---------------------------------------------------------------------- *)
(* Permission engine (auth/authorization.ts)                               *)
(* ---------------------------------------------------------------------- *)

\* fault: a user may edit the status of any incident
hasIncidentPermission_NoAssigneeCheck(teamRole, permission, inc, userId) ==
    IF teamRole = TeamRole.ADMIN THEN TRUE
    ELSE IF teamRole = TeamRole.MANAGER
         THEN permission # IncidentPermission.DELETE
    ELSE permission \in {IncidentPermission.CREATE, IncidentPermission.VIEW,
                         IncidentPermission.EDIT_STATUS}

hasIncidentPermission(teamRole, permission, inc, userId) ==
    IF teamRole = TeamRole.ADMIN THEN TRUE
    ELSE IF teamRole = TeamRole.MANAGER
         THEN permission # IncidentPermission.DELETE
    ELSE CASE permission = IncidentPermission.CREATE -> TRUE
           [] permission = IncidentPermission.VIEW -> TRUE
           [] permission = IncidentPermission.EDIT_STATUS ->
                IF inc.id # Undefined /\ Truthy(userId)
                THEN inc.assigned_to_user_id = userId
                ELSE FALSE
           [] permission = IncidentPermission.ASSIGN -> FALSE
           [] permission = IncidentPermission.DELETE -> FALSE
           [] OTHER -> FALSE

canEditOwnIncident(inc, userId) == inc.reported_by_user_id = userId

(* ---------------------------------------------------------------------- *)
(* Responses                                                               *)
(* ---------------------------------------------------------------------- *)

R(status, message) == [status |-> status, message |-> message]

\* a middleware called next(): the request goes on to the handler
Next_ == R(0, "next")

\* res.status(...).json({..., incident | incidents}): `incidents` is the set
\* of incident rows in the body
ReplyWith(route, r, rows) ==
    res' = [route |-> route, status |-> r.status, message |-> r.message,
            errors |-> <<>>, incidents |-> rows]

Reply(route, r) == ReplyWith(route, r, {})

NoResponse ==
    [route |-> "", status |-> 0, message |-> "", errors |-> <<>>,
     incidents |-> {}]
NoCall ==
    [fn |-> "", teamRole |-> "", permission |-> "", incident |-> NoIncident,
     userId |-> Undefined, done |-> FALSE, result |-> FALSE]

(* ---------------------------------------------------------------------- *)
(* Queries (db/teamUserQueries.ts, db/teamQueries.ts, db/usersQueries.ts,  *)
(* db/platformManagerQueries.ts) and the schema's constraints              *)
(* ---------------------------------------------------------------------- *)

NullRole == "null"

membershipRows(userId, teamId) ==
    {m \in team_user : m.user_id = userId /\ m.team_id = teamId}

getUserRoleInTeam(userId, teamId) ==
    IF membershipRows(userId, teamId) = {} THEN NullRole
    ELSE (CHOOSE m \in membershipRows(userId, teamId) : TRUE).role

isUserInTeam(userId, teamId) == membershipRows(userId, teamId) # {}

findUserById(userId) == userId \in users

getTeamById(teamId) == teamId \in team

isPlatformManager(userId) == userId \in platform_manager

\* fault: the table has no UNIQUE KEY on (user_id, team_id)
teamUserInsertAllowed_NoUniqueKey(userId, teamId, role) ==
    /\ userId \in users
    /\ teamId \in team
    /\ role \in Roles

\* UNIQUE KEY uk_team_membership_user_team, both foreign keys, the role ENUM
teamUserInsertAllowed(userId, teamId, role) ==
    /\ userId \in users
    /\ teamId \in team
    /\ role \in Roles
    /\ membershipRows(userId, teamId) = {}

\* INSERT INTO team_user (user_id, team_id, role)
addUserToTeam(userId, teamId, role) ==
    team_user \cup {[user_id |-> userId, team_id |-> teamId, role |-> role]}

\* DELETE FROM team_user WHERE user_id = ? AND team_id = ?
removeUserFromTeam(userId, teamId) ==
    team_user \ membershipRows(userId, teamId)

\* UPDATE team_user SET role = ? WHERE user_id = ? AND team_id = ?
updateUserRoleInTeam(userId, teamId, role) ==
    (team_user \ membershipRows(userId, teamId))
        \cup {[m EXCEPT !.role = role] : m \in membershipRows(userId, teamId)}

\* affectedRows > 0 of the UPDATE and the DELETE: the rows the WHERE matched
\* (the driver's default connection flags report found rows)
affectedRows(userId, teamId) == Cardinality(membershipRows(userId, teamId))

(* ---------------------------------------------------------------------- *)
(* Guard layer (auth/authMiddleware.ts, auth/authorization.ts,             *)
(* auth/platformManagerMiddleware.ts)                                      *)
(* ---------------------------------------------------------------------- *)

\* callers: the userId of a verified token, or Undefined when there is none
authMiddleware(caller) ==
    IF caller = Undefined THEN R(401, "Authentication required") ELSE Next_

\* fault: an allowed role in any team is enough
requireTeamRole_RoleInAnyTeam(caller, teamId, allowedRoles) ==
    IF ~Truthy(caller) THEN R(401, "Authentication required")
    ELSE IF ~Truthy(teamId) THEN R(400, "Team ID is required")
    ELSE IF \E m \in team_user :
               m.user_id = caller /\ m.role \in allowedRoles
         THEN Next_
    ELSE IF getUserRoleInTeam(caller, teamId) = NullRole
         THEN R(403, "You are not a member of this team")
    ELSE R(403, "Insufficient permissions in this team")

\* fault: the role is tested before the membership
requireTeamRole_RoleBeforeMembership(caller, teamId, allowedRoles) ==
    IF ~Truthy(caller) THEN R(401, "Authentication required")
    ELSE IF ~Truthy(teamId) THEN R(400, "Team ID is required")
    ELSE IF getUserRoleInTeam(caller, teamId) \notin allowedRoles
         THEN R(403, "Insufficient permissions in this team")
    ELSE IF getUserRoleInTeam(caller, teamId) = NullRole
         THEN R(403, "You are not a member of this team")
    ELSE Next_

requireTeamRole(caller, teamId, allowedRoles) ==
    IF ~Truthy(caller) THEN R(401, "Authentication required")
    ELSE IF ~Truthy(teamId) THEN R(400, "Team ID is required")
    ELSE IF getUserRoleInTeam(caller, teamId) = NullRole
         THEN R(403, "You are not a member of this team")
    ELSE IF getUserRoleInTeam(caller, teamId) \notin allowedRoles
         THEN R(403, "Insufficient permissions in this team")
    ELSE Next_

\* fault: a verdict of next() is remembered and given again
requireTeamMembership_CachedVerdict(caller, teamId) ==
    IF "seen" \in DOMAIN call /\ call.done /\ call.result = Next_ THEN Next_
    ELSE IF ~Truthy(caller) THEN R(401, "Authentication required")
    ELSE IF ~Truthy(teamId) THEN R(400, "Team ID is required")
    ELSE IF getUserRoleInTeam(caller, teamId) = NullRole
         THEN R(403, "You are not a member of this team")
    ELSE Next_

requireTeamMembership(caller, teamId) ==
    IF ~Truthy(caller) THEN R(401, "Authentication required")
    ELSE IF ~Truthy(teamId) THEN R(400, "Team ID is required")
    ELSE IF getUserRoleInTeam(caller, teamId) = NullRole
         THEN R(403, "You are not a member of this team")
    ELSE Next_

requirePlatformManager_TeamAdmin(caller) ==
    IF caller \notin platform_manager
       /\ ~\E m \in team_user : m.user_id = caller /\ m.role = TeamRole.ADMIN
    THEN R(403, "Platform manager access required")
    ELSE Next_

\* SELECT user_id FROM platform_manager WHERE user_id = ?
requirePlatformManager(caller) ==
    IF caller \notin platform_manager
    THEN R(403, "Platform manager access required")
    ELSE Next_

\* the first middleware of the chain that answers decides; else next
Chain(first, second) == IF first # Next_ THEN first ELSE second

(* ---------------------------------------------------------------------- *)
(* Team-scoped membership management (routes/teams.ts)                     *)
(* ---------------------------------------------------------------------- *)

\* request inputs: a role of the body (absent, a TeamRole, anything else) and
\* a user id of the body or the path (absent, or a number)
RoleInputs == Roles \cup {"undefined", "owner"}
UserIdInputs == UserIds \cup {Undefined}
Callers == UserIds \cup {Undefined}

\* const { userId, role = "user" } = req.body
roleOrDefault(role) == IF role = "undefined" THEN "user" ELSE role

teamPostMemberResponse_AnyRole(caller, teamId, userId, role) ==
    Chain(authMiddleware(caller),
    Chain(requireTeamRole(caller, teamId, {TeamRole.ADMIN}),
    IF ~Truthy(userId) THEN R(400, "Valid user ID is required")
    ELSE IF roleOrDefault(role) \notin {"user", "manager", "admin"}
         THEN R(400, "Team admins can only add users or managers")
    ELSE IF ~findUserById(userId) THEN R(404, "User not found")
    ELSE IF isUserInTeam(userId, teamId)
         THEN R(400, "User is already a team member")
    ELSE IF ~teamUserInsertAllowed(userId, teamId, roleOrDefault(role))
         THEN R(500, "Internal server error")
    ELSE R(201, "User added to team")))

\* POST /teams/:teamId/members
teamPostMemberResponse(caller, teamId, userId, role) ==
    Chain(authMiddleware(caller),
    Chain(requireTeamRole(caller, teamId, {TeamRole.ADMIN}),
    IF ~Truthy(userId) THEN R(400, "Valid user ID is required")
    ELSE IF roleOrDefault(role) \notin {"user", "manager"}
         THEN R(400, "Team admins can only add users or managers")
    ELSE IF ~findUserById(userId) THEN R(404, "User not found")
    ELSE IF isUserInTeam(userId, teamId)
         THEN R(400, "User is already a team member")
    ELSE IF ~teamUserInsertAllowed(userId, teamId, roleOrDefault(role))
         THEN R(500, "Internal server error")
    ELSE R(201, "User added to team")))

TeamPostMember(caller, teamId, userId, role) ==
    LET r == teamPostMemberResponse(caller, teamId, userId, role) IN
    /\ r.status = 201 => Cardinality(team_user) < MaxMemberships
    /\ Reply("POST /teams/:teamId/members", r)
    /\ team_user' = IF r.status = 201
                    THEN addUserToTeam(userId, teamId, roleOrDefault(role))
                    ELSE team_user
    /\ UNCHANGED <<users, team, platform_manager, incident, call>>

teamPutMemberResponse_NoAdminGuard(caller, teamId, targetUserId, role) ==
    Chain(authMiddleware(caller),
    Chain(requireTeamRole(caller, teamId, {TeamRole.ADMIN}),
    IF targetUserId = Undefined THEN R(400, "Invalid user ID")
    ELSE IF targetUserId = caller
         THEN R(400, "Cannot change your own role")
    ELSE IF getUserRoleInTeam(targetUserId, teamId) = NullRole
         THEN R(404, "User is not a member of this team")
    ELSE IF role = "undefined" \/ role \notin {"user", "manager"}
         THEN R(400, "Valid role is required (user or manager)")
    ELSE IF affectedRows(targetUserId, teamId) = 0
         THEN R(404, "Team membership not found")
    ELSE R(200, "Role updated")))

\* PUT /teams/:teamId/members/:userId
teamPutMemberResponse(caller, teamId, targetUserId, role) ==
    Chain(authMiddleware(caller),
    Chain(requireTeamRole(caller, teamId, {TeamRole.ADMIN}),
    IF targetUserId = Undefined THEN R(400, "Invalid user ID")
    ELSE IF targetUserId = caller
         THEN R(400, "Cannot change your own role")
    ELSE IF getUserRoleInTeam(targetUserId, teamId) = NullRole
         THEN R(404, "User is not a member of this team")
    ELSE IF getUserRoleInTeam(targetUserId, teamId) = TeamRole.ADMIN
         THEN R(403, "Cannot change another admin's role")
    ELSE IF role = "undefined" \/ role \notin {"user", "manager"}
         THEN R(400, "Valid role is required (user or manager)")
    ELSE IF affectedRows(targetUserId, teamId) = 0
         THEN R(404, "Team membership not found")
    ELSE R(200, "Role updated")))

TeamPutMember(caller, teamId, targetUserId, role) ==
    LET r == teamPutMemberResponse(caller, teamId, targetUserId, role) IN
    /\ Reply("PUT /teams/:teamId/members/:userId", r)
    /\ team_user' = IF r.status = 200
                    THEN updateUserRoleInTeam(targetUserId, teamId, role)
                    ELSE team_user
    /\ UNCHANGED <<users, team, platform_manager, incident, call>>

teamDeleteMemberResponse_NoSelfGuard(caller, teamId, targetUserId) ==
    Chain(authMiddleware(caller),
    Chain(requireTeamRole(caller, teamId, {TeamRole.ADMIN}),
    IF targetUserId = Undefined THEN R(400, "Invalid user ID")
    ELSE IF getUserRoleInTeam(targetUserId, teamId) = NullRole
         THEN R(404, "User is not a member of this team")
    ELSE IF getUserRoleInTeam(targetUserId, teamId) = TeamRole.ADMIN
         THEN R(403, "Cannot remove another admin from the team")
    ELSE IF affectedRows(targetUserId, teamId) = 0
         THEN R(404, "Team membership not found")
    ELSE R(200, "User removed from team")))

\* DELETE /teams/:teamId/members/:userId
teamDeleteMemberResponse(caller, teamId, targetUserId) ==
    Chain(authMiddleware(caller),
    Chain(requireTeamRole(caller, teamId, {TeamRole.ADMIN}),
    IF targetUserId = Undefined THEN R(400, "Invalid user ID")
    ELSE IF targetUserId = caller
         THEN R(400, "Cannot remove yourself from the team")
    ELSE IF getUserRoleInTeam(targetUserId, teamId) = NullRole
         THEN R(404, "User is not a member of this team")
    ELSE IF getUserRoleInTeam(targetUserId, teamId) = TeamRole.ADMIN
         THEN R(403, "Cannot remove another admin from the team")
    ELSE IF affectedRows(targetUserId, teamId) = 0
         THEN R(404, "Team membership not found")
    ELSE R(200, "User removed from team")))

TeamDeleteMember(caller, teamId, targetUserId) ==
    LET r == teamDeleteMemberResponse(caller, teamId, targetUserId) IN
    /\ Reply("DELETE /teams/:teamId/members/:userId", r)
    /\ team_user' = IF r.status = 200
                    THEN removeUserFromTeam(targetUserId, teamId)
                    ELSE team_user
    /\ UNCHANGED <<users, team, platform_manager, incident, call>>

(* ---------------------------------------------------------------------- *)
(* Platform-manager tier (routes/admin.ts)                                 *)
(* ---------------------------------------------------------------------- *)

\* rows of other tables that reference the user without ON DELETE CASCADE
\* (fk_team_membership_user, fk_incident_reported_by, fk_incident_assigned_to)
userIsReferenced(userId) ==
    \/ \E m \in team_user : m.user_id = userId
    \/ \E i \in DOMAIN incident :
         \/ incident[i].reported_by_user_id = userId
         \/ incident[i].assigned_to_user_id = userId

\* rows that reference the team (fk_team_membership_team, fk_incident_team)
teamIsReferenced(teamId) ==
    \/ \E m \in team_user : m.team_id = teamId
    \/ \E i \in DOMAIN incident : incident[i].team_id = teamId

\* adminRouter.use(authMiddleware); adminRouter.use(requirePlatformManager)
adminRouterUse(caller) ==
    Chain(authMiddleware(caller), requirePlatformManager(caller))

\* GET /admin/status
AdminStatus(caller) ==
    /\ Reply("GET /admin/status",
             Chain(adminRouterUse(caller), R(200, "isPlatformManager")))
    /\ UNCHANGED <<db, call>>

\* POST /admin/teams/:teamId/members
adminPostMemberResponse(caller, teamId, userId, role) ==
    Chain(adminRouterUse(caller),
    IF ~Truthy(userId) THEN R(400, "Valid user ID is required")
    ELSE IF roleOrDefault(role) \notin {"user", "manager", "admin"}
         THEN R(400, "Invalid role")
    ELSE IF ~getTeamById(teamId) THEN R(404, "Team not found")
    ELSE IF ~findUserById(userId) THEN R(404, "User not found")
    ELSE IF isUserInTeam(userId, teamId)
         THEN R(400, "User is already a team member")
    ELSE IF ~teamUserInsertAllowed(userId, teamId, roleOrDefault(role))
         THEN R(500, "Internal server error")
    ELSE R(201, "User added to team"))

AdminPostMember(caller, teamId, userId, role) ==
    LET r == adminPostMemberResponse(caller, teamId, userId, role) IN
    /\ r.status = 201 => Cardinality(team_user) < MaxMemberships
    /\ Reply("POST /admin/teams/:teamId/members", r)
    /\ team_user' = IF r.status = 201
                    THEN addUserToTeam(userId, teamId, roleOrDefault(role))
                    ELSE team_user
    /\ UNCHANGED <<users, team, platform_manager, incident, call>>

adminPutMemberResponse_TeamTierGuard(caller, teamId, userId, role) ==
    Chain(adminRouterUse(caller),
    IF userId = Undefined THEN R(400, "Invalid team or user ID")
    ELSE IF role = "undefined" \/ role \notin {"user", "manager", "admin"}
         THEN R(400, "Valid role is required (user, manager, admin)")
    ELSE IF getUserRoleInTeam(userId, teamId) = TeamRole.ADMIN
         THEN R(403, "Cannot change another admin's role")
    ELSE IF affectedRows(userId, teamId) = 0
         THEN R(404, "Team membership not found")
    ELSE R(200, "Role updated"))

\* PUT /admin/teams/:teamId/members/:userId
adminPutMemberResponse(caller, teamId, userId, role) ==
    Chain(adminRouterUse(caller),
    IF userId = Undefined THEN R(400, "Invalid team or user ID")
    ELSE IF role = "undefined" \/ role \notin {"user", "manager", "admin"}
         THEN R(400, "Valid role is required (user, manager, admin)")
    ELSE IF affectedRows(userId, teamId) = 0
         THEN R(404, "Team membership not found")
    ELSE R(200, "Role updated"))

AdminPutMember(caller, teamId, userId, role) ==
    LET r == adminPutMemberResponse(caller, teamId, userId, role) IN
    /\ Reply("PUT /admin/teams/:teamId/members/:userId", r)
    /\ team_user' = IF r.status = 200
                    THEN updateUserRoleInTeam(userId, teamId, role)
                    ELSE team_user
    /\ UNCHANGED <<users, team, platform_manager, incident, call>>

\* DELETE /admin/teams/:teamId/members/:userId
adminDeleteMemberResponse(caller, teamId, userId) ==
    Chain(adminRouterUse(caller),
    IF userId = Undefined THEN R(400, "Invalid team or user ID")
    ELSE IF affectedRows(userId, teamId) = 0
         THEN R(404, "Team membership not found")
    ELSE R(200, "User removed from team"))

AdminDeleteMember(caller, teamId, userId) ==
    LET r == adminDeleteMemberResponse(caller, teamId, userId) IN
    /\ Reply("DELETE /admin/teams/:teamId/members/:userId", r)
    /\ team_user' = IF r.status = 200
                    THEN removeUserFromTeam(userId, teamId)
                    ELSE team_user
    /\ UNCHANGED <<users, team, platform_manager, incident, call>>

\* POST /admin/managers
adminPostManagerResponse(caller, userId) ==
    Chain(adminRouterUse(caller),
    IF ~Truthy(userId) THEN R(400, "Valid user ID is required")
    ELSE IF ~findUserById(userId) THEN R(404, "User not found")
    ELSE IF isPlatformManager(userId)
         THEN R(400, "User is already a platform manager")
    ELSE R(201, "Platform manager added"))

AdminPostManager(caller, userId) ==
    LET r == adminPostManagerResponse(caller, userId) IN
    /\ Reply("POST /admin/managers", r)
    /\ platform_manager' = IF r.status = 201
                           THEN platform_manager \cup {userId}
                           ELSE platform_manager
    /\ UNCHANGED <<users, team, team_user, incident, call>>

\* the handler of DELETE /admin/managers/:userId, run once the router's
\* middleware has called next()
adminDeleteManagerHandler(caller, userId) ==
    IF userId = Undefined THEN R(400, "Invalid user ID")
    ELSE IF userId = caller
         THEN R(400, "Cannot remove yourself as platform manager")
    ELSE IF ~isPlatformManager(userId)
         THEN R(404, "Platform manager not found")
    ELSE R(200, "Platform manager removed")

adminDeleteManagerResponse_NoSelfGuard(caller, userId) ==
    Chain(adminRouterUse(caller),
    IF userId = Undefined THEN R(400, "Invalid user ID")
    ELSE IF ~isPlatformManager(userId)
         THEN R(404, "Platform manager not found")
    ELSE R(200, "Platform manager removed"))

\* DELETE /admin/managers/:userId
adminDeleteManagerResponse(caller, userId) ==
    Chain(adminRouterUse(caller), adminDeleteManagerHandler(caller, userId))

AdminDeleteManager(caller, userId) ==
    LET r == adminDeleteManagerResponse(caller, userId) IN
    /\ Reply("DELETE /admin/managers/:userId", r)
    /\ platform_manager' = IF r.status = 200
                           THEN platform_manager \ {userId}
                           ELSE platform_manager
    /\ UNCHANGED <<users, team, team_user, incident, call>>

\* the handler of DELETE /admin/users/:userId, run once the router's
\* middleware has called next()
adminDeleteUserHandler(caller, userId) ==
    IF userId = Undefined THEN R(400, "Invalid user ID")
    ELSE IF userId = caller
         THEN R(400, "Cannot delete yourself")
    ELSE IF userIsReferenced(userId)
         THEN R(400, "Cannot delete user with team memberships or incidents")
    ELSE IF ~findUserById(userId) THEN R(404, "User not found")
    ELSE R(200, "User deleted")

adminDeleteUserResponse_NoSelfGuard(caller, userId) ==
    Chain(adminRouterUse(caller),
    IF userId = Undefined THEN R(400, "Invalid user ID")
    ELSE IF userIsReferenced(userId)
         THEN R(400, "Cannot delete user with team memberships or incidents")
    ELSE IF ~findUserById(userId) THEN R(404, "User not found")
    ELSE R(200, "User deleted"))

\* DELETE /admin/users/:userId
adminDeleteUserResponse(caller, userId) ==
    Chain(adminRouterUse(caller), adminDeleteUserHandler(caller, userId))

\* DELETE FROM users; fk_platform_manager_user is ON DELETE CASCADE
AdminDeleteUser(caller, userId) ==
    LET r == adminDeleteUserResponse(caller, userId) IN
    /\ Reply("DELETE /admin/users/:userId", r)
    /\ users' = IF r.status = 200 THEN users \ {userId} ELSE users
    /\ platform_manager' = IF r.status = 200
                           THEN platform_manager \ {userId}
                           ELSE platform_manager
    /\ UNCHANGED <<team, team_user, incident, call>>

\* DELETE /admin/teams/:teamId
adminDeleteTeamResponse(caller, teamId) ==
    Chain(adminRouterUse(caller),
    IF teamIsReferenced(teamId)
    THEN R(400, "Cannot delete team with members or incidents")
    ELSE IF ~getTeamById(teamId) THEN R(404, "Team not found")
    ELSE R(200, "Team deleted"))

AdminDeleteTeam(caller, teamId) ==
    LET r == adminDeleteTeamResponse(caller, teamId) IN
    /\ Reply("DELETE /admin/teams/:teamId", r)
    /\ team' = IF r.status = 200 THEN team \ {teamId} ELSE team
    /\ UNCHANGED <<users, team_user, platform_manager, incident, call>>

(* ---------------------------------------------------------------------- *)
(* Strings: sequences of characters, so that trim() is computed            *)
(* ---------------------------------------------------------------------- *)

Chars == {"a", " "}
Strings == UNION {[1 .. n -> Chars] : n \in 0 .. MaxTitleLen}

\* an absent body field, and SQL NULL in a text column
UndefinedStr == <<"undefined">>
NullStr == <<"null">>

RECURSIVE trimStart(_)
trimStart(s) ==
    IF s = <<>> THEN s
    ELSE IF Head(s) = " " THEN trimStart(Tail(s)) ELSE s

RECURSIVE trimEnd(_)
trimEnd(s) ==
    IF s = <<>> THEN s
    ELSE IF s[Len(s)] = " " THEN trimEnd(SubSeq(s, 1, Len(s) - 1)) ELSE s

\* String.prototype.trim
trim(s) == trimEnd(trimStart(s))

(* ---------------------------------------------------------------------- *)
(* Incidents (db/incidentQueries.ts, routes/incidents.ts)                  *)
(* ---------------------------------------------------------------------- *)

\* SELECT ... FROM incident WHERE id = ?
findIncidentById(id) ==
    IF id \in DOMAIN incident THEN incident[id] ELSE NoIncident

\* fault: a new incident is assigned to its reporter
createIncident_AssignedToReporter(title, description, teamId, reportedByUserId) ==
    Append(incident,
           [id |-> Len(incident) + 1, title |-> title,
            description |-> description, status |-> IncidentStatus.PENDING,
            team_id |-> teamId, reported_by_user_id |-> reportedByUserId,
            assigned_to_user_id |-> reportedByUserId])

\* INSERT INTO incident (title, description, team_id, reported_by_user_id):
\* status takes its DEFAULT 'pending', assigned_to_user_id is NULL
createIncident(title, description, teamId, reportedByUserId) ==
    Append(incident,
           [id |-> Len(incident) + 1, title |-> title,
            description |-> description, status |-> IncidentStatus.PENDING,
            team_id |-> teamId, reported_by_user_id |-> reportedByUserId,
            assigned_to_user_id |-> Null])

\* POST /teams/:teamId/incidents
createIncidentResponse(caller, teamId, title, description) ==
    Chain(authMiddleware(caller),
    Chain(requireTeamMembership(caller, teamId),
    IF title = UndefinedStr \/ title = <<>> \/ trim(title) = <<>>
    THEN R(400, "Title is required")
    ELSE IF caller \notin users \/ teamId \notin team
         THEN R(500, "Internal server error")
    ELSE R(201, "Incident created successfully")))

PostIncident(caller, teamId, title, description) ==
    LET r == createIncidentResponse(caller, teamId, title, description) IN
    /\ r.status = 201 => Len(incident) < MaxIncidents
    /\ incident' =
         IF r.status = 201
         THEN createIncident(
                trim(title),
                IF description = UndefinedStr \/ trim(description) = <<>>
                THEN NullStr ELSE trim(description),
                teamId, caller)
         ELSE incident
    /\ ReplyWith("POST /teams/:teamId/incidents", r,
                 IF r.status = 201 THEN {incident'[Len(incident')]} ELSE {})
    /\ UNCHANGED <<users, team, team_user, platform_manager, call>>

\* body of PATCH: every field may be absent
StatusInputs == validStatuses \cup {"undefined", "closed"}
NoUpdates ==
    [title |-> UndefinedStr, description |-> UndefinedStr,
     status |-> "undefined", assigned_to_user_id |-> Undefined]

canEditTitle_AssigneeToo(inc, userRole, userId) ==
    \/ canEditOwnIncident(inc, userId)
    \/ inc.assigned_to_user_id = userId
    \/ hasIncidentPermission(userRole, IncidentPermission.ASSIGN,
                             NoIncident, Undefined)

\* canEditOwnIncident(incident, userId) ||
\*   hasIncidentPermission(userRole, IncidentPermission.ASSIGN)
canEditTitle(inc, userRole, userId) ==
    \/ canEditOwnIncident(inc, userId)
    \/ hasIncidentPermission(userRole, IncidentPermission.ASSIGN,
                             NoIncident, Undefined)

canEditDescription(inc, userRole, userId) ==
    \/ canEditOwnIncident(inc, userId)
    \/ hasIncidentPermission(userRole, IncidentPermission.ASSIGN,
                             NoIncident, Undefined)

\* what the handler does with each field of the body, in the handler's order
\* fault: a blank title is written like any other
titleStep_BlankAllowed(inc, userRole, userId, updates) ==
    IF updates.title = UndefinedStr THEN "skip"
    ELSE IF ~canEditTitle(inc, userRole, userId) THEN "denied"
    ELSE "write"

titleStep(inc, userRole, userId, updates) ==
    IF updates.title = UndefinedStr THEN "skip"
    ELSE IF ~canEditTitle(inc, userRole, userId) THEN "denied"
    ELSE IF trim(updates.title) = <<>> THEN "invalid"
    ELSE "write"

descriptionStep(inc, userRole, userId, updates) ==
    IF updates.description = UndefinedStr THEN "skip"
    ELSE IF ~canEditDescription(inc, userRole, userId) THEN "denied"
    ELSE "write"

\* fault: the permission is consulted before the value is validated
statusStep_PermissionFirst(inc, userRole, userId, updates) ==
    IF updates.status = "undefined" THEN "skip"
    ELSE IF ~hasIncidentPermission(userRole, IncidentPermission.EDIT_STATUS,
                                   inc, userId)
         THEN "denied"
    ELSE IF updates.status \notin validStatuses THEN "invalid"
    ELSE "write"

\* fault: a resolved incident's status is final
statusStep_ResolvedIsFinal(inc, userRole, userId, updates) ==
    IF updates.status = "undefined" THEN "skip"
    ELSE IF updates.status \notin validStatuses THEN "invalid"
    ELSE IF \/ ~hasIncidentPermission(userRole,
                    IncidentPermission.EDIT_STATUS, inc, userId)
            \/ inc.status = IncidentStatus.RESOLVED
         THEN "denied"
    ELSE "write"

statusStep(inc, userRole, userId, updates) ==
    IF updates.status = "undefined" THEN "skip"
    ELSE IF updates.status \notin validStatuses THEN "invalid"
    ELSE IF ~hasIncidentPermission(userRole, IncidentPermission.EDIT_STATUS,
                                   inc, userId)
         THEN "denied"
    ELSE "write"

\* fault: only a member of the incident's team can be made its assignee
assignStep_MembersOnly(inc, userRole, userId, updates) ==
    IF updates.assigned_to_user_id = Undefined THEN "skip"
    ELSE IF \/ ~hasIncidentPermission(userRole, IncidentPermission.ASSIGN,
                                      NoIncident, Undefined)
            \/ /\ updates.assigned_to_user_id # Null
               /\ ~isUserInTeam(updates.assigned_to_user_id, inc.team_id)
         THEN "denied"
    ELSE IF updates.assigned_to_user_id # Null
            /\ updates.assigned_to_user_id \notin users
         THEN "throw"
    ELSE "write"

\* fault: clearing the assignee needs no permission
assignStep_AnyoneMayClear(inc, userRole, userId, updates) ==
    IF updates.assigned_to_user_id = Undefined THEN "skip"
    ELSE IF /\ updates.assigned_to_user_id # Null
            /\ ~hasIncidentPermission(userRole, IncidentPermission.ASSIGN,
                                      NoIncident, Undefined)
         THEN "denied"
    ELSE IF updates.assigned_to_user_id # Null
            /\ updates.assigned_to_user_id \notin users
         THEN "throw"
    ELSE "write"

\* fk_incident_assigned_to: the UPDATE throws for a user id with no row
assignStep(inc, userRole, userId, updates) ==
    IF updates.assigned_to_user_id = Undefined THEN "skip"
    ELSE IF ~hasIncidentPermission(userRole, IncidentPermission.ASSIGN,
                                   NoIncident, Undefined)
         THEN "denied"
    ELSE IF updates.assigned_to_user_id # Null
            /\ updates.assigned_to_user_id \notin users
         THEN "throw"
    ELSE "write"

patchErrors(inc, userRole, userId, updates) ==
    (CASE titleStep(inc, userRole, userId, updates) = "denied" ->
            <<"You do not have permission to edit the title">>
       [] titleStep(inc, userRole, userId, updates) = "invalid" ->
            <<"Title cannot be empty">>
       [] OTHER -> <<>>)
    \o (IF descriptionStep(inc, userRole, userId, updates) = "denied"
        THEN <<"You do not have permission to edit the description">>
        ELSE <<>>)
    \o (CASE statusStep(inc, userRole, userId, updates) = "denied" ->
              <<"You do not have permission to edit the status">>
          [] statusStep(inc, userRole, userId, updates) = "invalid" ->
              <<"Invalid status. Must be one of: pending, under_review, escalated, resolved">>
          [] OTHER -> <<>>)
    \o (IF assignStep(inc, userRole, userId, updates) = "denied"
        THEN <<"You do not have permission to assign incidents">>
        ELSE <<>>)

patchUpdated(inc, userRole, userId, updates) ==
    \/ titleStep(inc, userRole, userId, updates) = "write"
    \/ descriptionStep(inc, userRole, userId, updates) = "write"
    \/ statusStep(inc, userRole, userId, updates) = "write"
    \/ assignStep(inc, userRole, userId, updates) = "write"

\* fault: assigning an incident also hands it over to the assignee
patchedRow_AssignHandsOver(inc, userRole, userId, updates) ==
    [inc EXCEPT
       !.title =
          IF titleStep(inc, userRole, userId, updates) = "write"
          THEN trim(updates.title) ELSE @,
       !.description =
          IF descriptionStep(inc, userRole, userId, updates) = "write"
          THEN (IF trim(updates.description) = <<>> THEN NullStr
                ELSE trim(updates.description))
          ELSE @,
       !.status =
          IF statusStep(inc, userRole, userId, updates) = "write"
          THEN updates.status ELSE @,
       !.reported_by_user_id =
          IF /\ assignStep(inc, userRole, userId, updates) = "write"
             /\ updates.assigned_to_user_id # Null
          THEN updates.assigned_to_user_id ELSE @,
       !.assigned_to_user_id =
          IF assignStep(inc, userRole, userId, updates) = "write"
          THEN updates.assigned_to_user_id ELSE @]

\* the row after updateIncidentTitle, updateIncidentDescription,
\* updateIncidentStatus and assignIncident, each run only for a "write"
patchedRow(inc, userRole, userId, updates) ==
    [inc EXCEPT
       !.title =
          IF titleStep(inc, userRole, userId, updates) = "write"
          THEN trim(updates.title) ELSE @,
       !.description =
          IF descriptionStep(inc, userRole, userId, updates) = "write"
          THEN (IF trim(updates.description) = <<>> THEN NullStr
                ELSE trim(updates.description))
          ELSE @,
       !.status =
          IF statusStep(inc, userRole, userId, updates) = "write"
          THEN updates.status ELSE @,
       !.assigned_to_user_id =
          IF assignStep(inc, userRole, userId, updates) = "write"
          THEN updates.assigned_to_user_id ELSE @]

\* a call of hasIncidentPermission and what it returned
permissionCall(teamRole, permission, inc, userId) ==
    [fn |-> "hasIncidentPermission", teamRole |-> teamRole,
     permission |-> permission, incident |-> inc, userId |-> userId,
     done |-> TRUE,
     result |-> hasIncidentPermission(teamRole, permission, inc, userId)]

\* the last call of hasIncidentPermission the handler makes for the body, or
\* `before` when it makes none: the assignment's, else the status's (made
\* only for a valid status), else the description's or the title's (made
\* only when canEditOwnIncident is false)
lastPermissionCall(inc, userRole, userId, updates, before) ==
    IF updates.assigned_to_user_id # Undefined
    THEN permissionCall(userRole, IncidentPermission.ASSIGN, NoIncident,
                        Undefined)
    ELSE IF updates.status \in validStatuses
    THEN permissionCall(userRole, IncidentPermission.EDIT_STATUS, inc, userId)
    ELSE IF /\ \/ updates.description # UndefinedStr
               \/ updates.title # UndefinedStr
            /\ ~canEditOwnIncident(inc, userId)
    THEN permissionCall(userRole, IncidentPermission.ASSIGN, NoIncident,
                        Undefined)
    ELSE before

\* SELECT ... FROM incident WHERE team_id = ?
getTeamIncidents(teamId) ==
    {incident[i] : i \in {j \in DOMAIN incident :
                             incident[j].team_id = teamId}}

\* SELECT ... WHERE reported_by_user_id = ? AND status != 'resolved'
getIncidentsCreatedByUser(userId) ==
    {incident[i] : i \in {j \in DOMAIN incident :
                             /\ incident[j].reported_by_user_id = userId
                             /\ incident[j].status
                                  # IncidentStatus.RESOLVED}}

\* SELECT ... WHERE assigned_to_user_id = ? AND status != 'resolved'
getIncidentsAssignedToUser(userId) ==
    {incident[i] : i \in {j \in DOMAIN incident :
                             /\ incident[j].assigned_to_user_id = userId
                             /\ incident[j].status
                                  # IncidentStatus.RESOLVED}}

\* GET /teams/:teamId/incidents
GetTeamIncidents(caller, teamId) ==
    LET r == Chain(authMiddleware(caller),
             Chain(requireTeamMembership(caller, teamId), R(200, ""))) IN
    /\ ReplyWith("GET /teams/:teamId/incidents", r,
                 IF r.status = 200 THEN getTeamIncidents(teamId) ELSE {})
    /\ UNCHANGED <<db, call>>

\* fault: the incident's team is not compared with the team of the path
getIncidentResponse_NoTeamCheck(caller, teamId, incidentId) ==
    Chain(authMiddleware(caller),
    Chain(requireTeamMembership(caller, teamId),
    IF findIncidentById(incidentId).id = Undefined
    THEN R(404, "Incident not found")
    ELSE R(200, "")))

\* GET /teams/:teamId/incidents/:incidentId
getIncidentResponse(caller, teamId, incidentId) ==
    Chain(authMiddleware(caller),
    Chain(requireTeamMembership(caller, teamId),
    IF \/ findIncidentById(incidentId).id = Undefined
       \/ findIncidentById(incidentId).team_id # teamId
    THEN R(404, "Incident not found")
    ELSE R(200, "")))

GetIncident(caller, teamId, incidentId) ==
    LET r == getIncidentResponse(caller, teamId, incidentId) IN
    /\ ReplyWith("GET /teams/:teamId/incidents/:incidentId", r,
                 IF r.status = 200 THEN {findIncidentById(incidentId)}
                 ELSE {})
    /\ UNCHANGED <<db, call>>

\* GET /dashboard/my-incidents
DashboardMyIncidents(caller) ==
    LET r == Chain(authMiddleware(caller), R(200, "")) IN
    /\ ReplyWith("GET /dashboard/my-incidents", r,
                 IF r.status = 200 THEN getIncidentsCreatedByUser(caller)
                 ELSE {})
    /\ UNCHANGED <<db, call>>

\* GET /dashboard/assigned-incidents
DashboardAssignedIncidents(caller) ==
    LET r == Chain(authMiddleware(caller), R(200, "")) IN
    /\ ReplyWith("GET /dashboard/assigned-incidents", r,
                 IF r.status = 200 THEN getIncidentsAssignedToUser(caller)
                 ELSE {})
    /\ UNCHANGED <<db, call>>

\* fault: any refused field makes the whole request 'Permission denied'
patchIncidentResponse_AnyErrorDenies(caller, teamId, incidentId, updates) ==
    Chain(authMiddleware(caller),
    Chain(requireTeamMembership(caller, teamId),
    LET inc == findIncidentById(incidentId)
        userRole == getUserRoleInTeam(caller, teamId)
    IN IF inc.id = Undefined \/ inc.team_id # teamId
       THEN R(404, "Incident not found")
       ELSE IF userRole = NullRole
            THEN R(403, "You are not a member of this team")
       ELSE IF assignStep(inc, userRole, caller, updates) = "throw"
            THEN R(500, "Internal server error")
       ELSE IF patchErrors(inc, userRole, caller, updates) # <<>>
            THEN R(403, "Permission denied")
       ELSE IF patchUpdated(inc, userRole, caller, updates)
            THEN R(200, "Incident updated successfully")
       ELSE R(200, "No changes made")))

\* PATCH /teams/:teamId/incidents/:incidentId
patchIncidentResponse(caller, teamId, incidentId, updates) ==
    Chain(authMiddleware(caller),
    Chain(requireTeamMembership(caller, teamId),
    LET inc == findIncidentById(incidentId)
        userRole == getUserRoleInTeam(caller, teamId)
    IN IF inc.id = Undefined \/ inc.team_id # teamId
       THEN R(404, "Incident not found")
       ELSE IF userRole = NullRole
            THEN R(403, "You are not a member of this team")
       ELSE IF assignStep(inc, userRole, caller, updates) = "throw"
            THEN R(500, "Internal server error")
       ELSE IF patchErrors(inc, userRole, caller, updates) # <<>>
               /\ ~patchUpdated(inc, userRole, caller, updates)
            THEN R(403, "Permission denied")
       ELSE IF patchUpdated(inc, userRole, caller, updates)
            THEN R(200, "Incident updated successfully")
       ELSE R(200, "No changes made")))

PatchIncident(caller, teamId, incidentId, updates) ==
    LET r == patchIncidentResponse(caller, teamId, incidentId, updates)
        inc == findIncidentById(incidentId)
        userRole == getUserRoleInTeam(caller, teamId)
        reached == r.message \in {"Internal server error", "Permission denied",
                                  "Incident updated successfully",
                                  "No changes made"}
    IN
    /\ res' = [route |-> "PATCH /teams/:teamId/incidents/:incidentId",
               status |-> r.status, message |-> r.message,
               errors |-> IF reached /\ r.status # 500
                          THEN patchErrors(inc, userRole, caller, updates)
                          ELSE <<>>,
               incidents |-> IF r.status = 200
                             THEN {patchedRow(inc, userRole, caller, updates)}
                             ELSE {}]
    /\ incident' =
         IF reached
         THEN [incident EXCEPT
                 ![incidentId] = patchedRow(inc, userRole, caller, updates)]
         ELSE incident
    /\ call' = IF reached
               THEN lastPermissionCall(inc, userRole, caller, updates, call)
               ELSE call
    /\ UNCHANGED <<users, team, team_user, platform_manager>>

(* ---------------------------------------------------------------------- *)
(* Requests and database states                                            *)
(* ---------------------------------------------------------------------- *)

Request(route, caller, teamId, userId, role, incidentId, updates) ==
    [route |-> route, caller |-> caller, teamId |-> teamId,
     userId |-> userId, role |-> role, incidentId |-> incidentId,
     updates |-> updates]

NoRequest == Request("", Undefined, Undefined, Undefined, "undefined",
                     Undefined, NoUpdates)

\* the event loop serves up to two requests at a time
Slots == {1, 2}

\* a slot with no request in it
\* `inc` and `userRole` are the handler's local variables of those names;
\* `stale` tells that the request wrote a field the handler would have
\* refused on the rows stored at the time of the write
Idle ==
    [req |-> NoRequest, pc |-> "idle", res |-> NoResponse,
     inc |-> NoIncident, userRole |-> NullRole, stale |-> FALSE]

NoInflight == [s \in Slots |-> Idle]

\* the team_user tables the schema admits over the given users and teams:
\* at most one row, with one role, per (user, team)
MembershipTables(us, ts) ==
    {tab \in SUBSET [user_id : us, team_id : ts, role : Roles] :
        /\ Cardinality(tab) <= MaxMemberships
        /\ \A m1, m2 \in tab :
             (m1.user_id = m2.user_id /\ m1.team_id = m2.team_id) => m1 = m2}

\* the incident tables of up to MaxIncidents rows in which one row ranges over
\* `rows` and every other row is a pending, unassigned incident of the same
\* team and reporter
IncidentTables(rows) ==
    {<<>>} \cup
    UNION {{[i \in 1 .. n |->
               IF i = k THEN [r EXCEPT !.id = i]
               ELSE [r EXCEPT !.id = i, !.status = IncidentStatus.PENDING,
                              !.assigned_to_user_id = Null]] :
            k \in 1 .. n, r \in rows} : n \in 1 .. MaxIncidents}

IncidentRows(us, ts, statuses) ==
    [id : {1}, title : {<<"b">>}, description : {NullStr},
     status : statuses, team_id : ts, reported_by_user_id : us,
     assigned_to_user_id : us \cup {Null}]

\* history: the step's replaced assignees who hold role user in the
\* incident's team, kept for as long as that role stays user
recordAssignees ==
    formerAssignees' =
        {p \in formerAssignees \cup
                {<<i, incident[i].assigned_to_user_id>> :
                    i \in {j \in DOMAIN incident :
                             /\ incident[j].assigned_to_user_id # Null
                             /\ incident'[j].assigned_to_user_id
                                  # incident[j].assigned_to_user_id}} :
            /\ [user_id |-> p[2], team_id |-> incident[p[1]].team_id,
                role |-> TeamRole.USER] \in team_user
            /\ [user_id |-> p[2], team_id |-> incident[p[1]].team_id,
                role |-> TeamRole.USER] \in team_user'}

\* the request is served once: the handler runs to its response
Serve(route, handler) ==
    /\ res = NoResponse
    /\ req.route = route
    /\ handler
    /\ recordAssignees
    /\ UNCHANGED <<req, inflight>>

\* a request arrives and is served
Handle(request, handler) ==
    /\ req' = request
    /\ handler
    /\ recordAssignees
    /\ UNCHANGED inflight

(* ---------------------------------------------------------------------- *)
(* SpecTeams: one request to the team-scoped membership endpoints, from    *)
(* every membership table                                                  *)
(* ---------------------------------------------------------------------- *)

TeamRequests ==
    {Request(rt, c, t, u, r, Undefined, NoUpdates) :
        rt \in {"POST /teams/:teamId/members",
                "PUT /teams/:teamId/members/:userId"},
        c \in Callers, t \in TeamIds, u \in UserIdInputs, r \in RoleInputs}
    \cup
    {Request("DELETE /teams/:teamId/members/:userId", c, t, u, "undefined",
             Undefined, NoUpdates) :
        c \in Callers, t \in TeamIds, u \in UserIdInputs}

InitTeams ==
    /\ users \in {UserIds, UserIds \ {2}}
    /\ team = TeamIds
    /\ team_user \in MembershipTables(users, team)
    /\ platform_manager = {}
    /\ incident = <<>>
    /\ req \in TeamRequests
    /\ res = NoResponse
    /\ call = NoCall
    /\ formerAssignees = {}
    /\ inflight = NoInflight

NextTeams ==
    \/ Serve("POST /teams/:teamId/members",
             TeamPostMember(req.caller, req.teamId, req.userId, req.role))
    \/ Serve("PUT /teams/:teamId/members/:userId",
             TeamPutMember(req.caller, req.teamId, req.userId, req.role))
    \/ Serve("DELETE /teams/:teamId/members/:userId",
             TeamDeleteMember(req.caller, req.teamId, req.userId))

SpecTeams == InitTeams /\ [][NextTeams]_vars

(* ---------------------------------------------------------------------- *)
(* Team-admin tier properties (SpecTeams)                                  *)
(* ---------------------------------------------------------------------- *)

\* the step answers the request `route` (req is the request served: in the
\* specifications of one request it is fixed from the start)
Answers(route) == req.route = route /\ res = NoResponse /\ res' # NoResponse

Refused == res'.status \notin {200, 201}

\* C4: POST /teams/:teamId/members creates a membership only with role user
\* or manager: a request whose role is admin or any other value is rejected
\* and creates no membership; whatever membership the request creates is
\* the target's, in that team, with the role asked for; and a team admin's
\* request with no role for an existing non-member creates the membership
\* with role user.
C4_TeamAddOnlyUserOrManager ==
    [][Answers("POST /teams/:teamId/members") =>
          /\ req.role \notin {"undefined", "user", "manager"} =>
                Refused /\ team_user' = team_user
          /\ team_user' # team_user =>
                /\ req.role \in {"undefined", "user", "manager"}
                /\ team_user' = team_user \cup
                     {[user_id |-> req.userId, team_id |-> req.teamId,
                       role |-> IF req.role = "manager" THEN "manager"
                                ELSE "user"]}
          /\ ( /\ req.role \in {"undefined", "user", "manager"}
               /\ getUserRoleInTeam(req.caller, req.teamId) = "admin"
               /\ req.userId \in users
               /\ ~isUserInTeam(req.userId, req.teamId) ) =>
                /\ res'.status = 201
                /\ [user_id |-> req.userId, team_id |-> req.teamId,
                    role |-> IF req.role = "manager" THEN "manager"
                             ELSE "user"] \in team_user'
    ]_vars

\* a team admin asked to add an existing non-member as admin: rejected
C4_Witness ==
    /\ res.route = "POST /teams/:teamId/members"
    /\ req.role = "admin"
    /\ req.userId \in users
    /\ ~isUserInTeam(req.userId, req.teamId)
    /\ getUserRoleInTeam(req.caller, req.teamId) = "admin"
    /\ res.status = 400
    /\ res.message = "Team admins can only add users or managers"

\* C5: PUT and DELETE /teams/:teamId/members/:userId on a target whose
\* current role in the team is admin are refused, whatever the caller and
\* the requested role, and leave the memberships unchanged.
C5_TeamCannotTouchAdmin ==
    [][( /\ \/ Answers("PUT /teams/:teamId/members/:userId")
            \/ Answers("DELETE /teams/:teamId/members/:userId")
         /\ getUserRoleInTeam(req.userId, req.teamId) = "admin" ) =>
          Refused /\ team_user' = team_user
    ]_vars

\* a team admin asked to make another admin of the team a manager: refused
C5_Witness ==
    /\ res.route = "PUT /teams/:teamId/members/:userId"
    /\ req.role = "manager"
    /\ req.userId # req.caller
    /\ getUserRoleInTeam(req.caller, req.teamId) = "admin"
    /\ getUserRoleInTeam(req.userId, req.teamId) = "admin"
    /\ res.status = 403
    /\ res.message = "Cannot change another admin's role"

\* C6: a team admin's PUT or DELETE /teams/:teamId/members/:userId on their
\* own membership is answered with the self-protection refusal (not with the
\* refusal for admin targets, which a later check would give) and leaves the
\* memberships unchanged.
C6_TeamCannotTouchSelf ==
    [][( /\ req.userId = req.caller
         /\ getUserRoleInTeam(req.caller, req.teamId) = "admin" ) =>
          /\ Answers("PUT /teams/:teamId/members/:userId") =>
                /\ res'.status = 400
                /\ res'.message = "Cannot change your own role"
                /\ team_user' = team_user
          /\ Answers("DELETE /teams/:teamId/members/:userId") =>
                /\ res'.status = 400
                /\ res'.message = "Cannot remove yourself from the team"
                /\ team_user' = team_user
    ]_vars

\* a team admin asked to remove their own membership: refused
C6_Witness ==
    /\ res.route = "DELETE /teams/:teamId/members/:userId"
    /\ req.userId = req.caller
    /\ getUserRoleInTeam(req.caller, req.teamId) = "admin"
    /\ res.status = 400
    /\ res.message = "Cannot remove yourself from the team"

(* ---------------------------------------------------------------------- *)
(* SpecAdmin: one request to the /admin endpoints, from every users,       *)
(* platform_manager and team_user table                                    *)
(* ---------------------------------------------------------------------- *)

AdminMemberRoutes ==
    {"POST /admin/teams/:teamId/members",
     "PUT /admin/teams/:teamId/members/:userId"}

AdminUserRoutes ==
    {"POST /admin/managers", "DELETE /admin/managers/:userId",
     "DELETE /admin/users/:userId"}

AdminRequests ==
    {Request(rt, c, t, u, r, Undefined, NoUpdates) :
        rt \in AdminMemberRoutes,
        c \in Callers, t \in TeamIds, u \in UserIdInputs, r \in RoleInputs}
    \cup
    {Request("DELETE /admin/teams/:teamId/members/:userId", c, t, u,
             "undefined", Undefined, NoUpdates) :
        c \in Callers, t \in TeamIds, u \in UserIdInputs}
    \cup
    {Request(rt, c, Undefined, u, "undefined", Undefined, NoUpdates) :
        rt \in AdminUserRoutes, c \in Callers, u \in UserIdInputs}
    \cup
    {Request("DELETE /admin/teams/:teamId", c, t, Undefined, "undefined",
             Undefined, NoUpdates) : c \in Callers, t \in TeamIds}
    \cup
    {Request("GET /admin/status", c, Undefined, Undefined, "undefined",
             Undefined, NoUpdates) : c \in Callers}

InitAdmin ==
    /\ users \in SUBSET UserIds
    /\ team \in {TeamIds, TeamIds \ {2}}
    /\ team_user \in MembershipTables(users, team)
    /\ platform_manager \in SUBSET users
    /\ incident \in IncidentTables(
                      IncidentRows(users, {1}, {IncidentStatus.PENDING}))
    /\ req \in AdminRequests
    /\ res = NoResponse
    /\ call = NoCall
    /\ formerAssignees = {}
    /\ inflight = NoInflight

NextAdmin ==
    \/ Serve("GET /admin/status", AdminStatus(req.caller))
    \/ Serve("POST /admin/teams/:teamId/members",
             AdminPostMember(req.caller, req.teamId, req.userId, req.role))
    \/ Serve("PUT /admin/teams/:teamId/members/:userId",
             AdminPutMember(req.caller, req.teamId, req.userId, req.role))
    \/ Serve("DELETE /admin/teams/:teamId/members/:userId",
             AdminDeleteMember(req.caller, req.teamId, req.userId))
    \/ Serve("POST /admin/managers",
             AdminPostManager(req.caller, req.userId))
    \/ Serve("DELETE /admin/managers/:userId",
             AdminDeleteManager(req.caller, req.userId))
    \/ Serve("DELETE /admin/users/:userId",
             AdminDeleteUser(req.caller, req.userId))
    \/ Serve("DELETE /admin/teams/:teamId",
             AdminDeleteTeam(req.caller, req.teamId))

SpecAdmin == InitAdmin /\ [][NextAdmin]_vars

(* ---------------------------------------------------------------------- *)
(* Platform-manager tier properties (SpecAdmin)                            *)
(* ---------------------------------------------------------------------- *)

AdminRoutes ==
    AdminMemberRoutes \cup AdminUserRoutes \cup
    {"DELETE /admin/teams/:teamId/members/:userId",
     "DELETE /admin/teams/:teamId", "GET /admin/status"}

\* C7: a platform manager's DELETE /admin/managers/:userId on themselves is
\* refused and leaves the platform-manager set unchanged; on any other
\* platform manager it succeeds and removes exactly that one.
C7_ManagerCannotRemoveSelf ==
    [][( /\ Answers("DELETE /admin/managers/:userId")
         /\ req.caller \in platform_manager ) =>
          /\ req.userId = req.caller =>
                /\ res'.status = 400
                /\ res'.message = "Cannot remove yourself as platform manager"
                /\ platform_manager' = platform_manager
          /\ (req.userId # req.caller /\ req.userId \in platform_manager) =>
                /\ res'.status = 200
                /\ platform_manager' = platform_manager \ {req.userId}
    ]_vars

\* a platform manager asked to remove themselves: refused, still a manager
C7_Witness ==
    /\ res.route = "DELETE /admin/managers/:userId"
    /\ req.userId = req.caller
    /\ req.caller \in platform_manager
    /\ res.status = 400

\* C8: a platform manager's DELETE /admin/users/:userId on themselves is
\* refused and leaves the users, the memberships and the platform-manager
\* set unchanged.
C8_ManagerCannotDeleteSelf ==
    [][( /\ Answers("DELETE /admin/users/:userId")
         /\ req.caller \in platform_manager
         /\ req.userId = req.caller ) =>
          /\ res'.status = 400
          /\ res'.message = "Cannot delete yourself"
          /\ users' = users
          /\ team_user' = team_user
          /\ platform_manager' = platform_manager
    ]_vars

\* a platform manager whom no membership and no incident references asked to
\* delete their own account: refused
C8_Witness ==
    /\ res.route = "DELETE /admin/users/:userId"
    /\ req.userId = req.caller
    /\ req.caller \in platform_manager
    /\ ~userIsReferenced(req.caller)
    /\ res.status = 400
    /\ res.message = "Cannot delete yourself"

\* C9: a platform manager, whatever their own memberships, adds any existing
\* non-member user to any existing team with any of the three roles (user
\* when none is given), sets any existing membership's role to any of the
\* three roles, and removes any existing membership, their own and an
\* admin's included.
C9_ManagerManagesAnyMembership ==
    [][req.caller \in platform_manager =>
          /\ ( /\ Answers("POST /admin/teams/:teamId/members")
               /\ req.teamId \in team
               /\ req.userId \in users
               /\ ~isUserInTeam(req.userId, req.teamId)
               /\ req.role \in Roles \cup {"undefined"} ) =>
                /\ res'.status = 201
                /\ team_user' = team_user \cup
                     {[user_id |-> req.userId, team_id |-> req.teamId,
                       role |-> IF req.role = "undefined" THEN "user"
                                ELSE req.role]}
          /\ ( /\ Answers("PUT /admin/teams/:teamId/members/:userId")
               /\ isUserInTeam(req.userId, req.teamId)
               /\ req.role \in Roles ) =>
                /\ res'.status = 200
                /\ team_user' =
                     {m \in team_user : ~( /\ m.user_id = req.userId
                                           /\ m.team_id = req.teamId )}
                     \cup {[user_id |-> req.userId, team_id |-> req.teamId,
                            role |-> req.role]}
          /\ ( /\ Answers("DELETE /admin/teams/:teamId/members/:userId")
               /\ isUserInTeam(req.userId, req.teamId) ) =>
                /\ res'.status = 200
                /\ team_user' =
                     {m \in team_user : ~( /\ m.user_id = req.userId
                                           /\ m.team_id = req.teamId )}
    ]_vars

\* a platform manager with no membership in the team made an admin of that
\* team a manager
C9_Witness ==
    /\ res.route = "PUT /admin/teams/:teamId/members/:userId"
    /\ req.caller \in platform_manager
    /\ ~isUserInTeam(req.caller, req.teamId)
    /\ req.role = "manager"
    /\ res.status = 200
    /\ getUserRoleInTeam(req.userId, req.teamId) = "manager"

\* C10: a request to an /admin endpoint passes the router's guard exactly when
\* the caller is in the platform-manager set: any other caller, a team admin
\* included, is refused with no change of the database, and a platform
\* manager's GET /admin/status succeeds whatever their memberships.
C10_AdminOnlyForPlatformManagers ==
    [][(req.route \in AdminRoutes /\ Answers(req.route)) =>
          /\ req.caller \notin platform_manager =>
                /\ res'.status \in {401, 403}
                /\ res'.message \in {"Authentication required",
                                     "Platform manager access required"}
                /\ db' = db
          /\ req.caller \in platform_manager =>
                /\ res'.message \notin {"Authentication required",
                                        "Platform manager access required"}
                /\ req.route = "GET /admin/status" => res'.status = 200
    ]_vars

\* a team admin who is no platform manager was refused by the guard
C10_Witness ==
    /\ req.route \in AdminRoutes
    /\ req.caller \notin platform_manager
    /\ \E m \in team_user : m.user_id = req.caller /\ m.role = "admin"
    /\ res.status = 403
    /\ res.message = "Platform manager access required"

(* ---------------------------------------------------------------------- *)
(* SpecPerm: one call of hasIncidentPermission, from every argument list   *)
(* ---------------------------------------------------------------------- *)

\* the userId argument: a user's id, 0, or not passed
PermUserIds == UserIds \cup {0, Undefined}

\* the incident argument: not passed, or a row with any assignee
PermIncidents ==
    {NoIncident} \cup IncidentRows(UserIds, {1}, {IncidentStatus.PENDING})

InitPerm ==
    /\ users = UserIds
    /\ team = TeamIds
    /\ team_user = {}
    /\ platform_manager = {}
    /\ incident = <<>>
    /\ req = NoRequest
    /\ res = NoResponse
    /\ formerAssignees = {}
    /\ inflight = NoInflight
    /\ call \in [fn : {"hasIncidentPermission"}, teamRole : Roles,
                  permission : Permissions, incident : PermIncidents,
                  userId : PermUserIds, done : {FALSE}, result : {FALSE}]

CallHasIncidentPermission ==
    /\ ~call.done
    /\ call' = [call EXCEPT
                  !.done = TRUE,
                  !.result = hasIncidentPermission(call.teamRole,
                                 call.permission, call.incident, call.userId)]
    /\ UNCHANGED <<db, req, res, formerAssignees, inflight>>

NextPerm == CallHasIncidentPermission

SpecPerm == InitPerm /\ [][NextPerm]_vars

\* C1: hasIncidentPermission returns true for admin on every action; for
\* manager on every action except DELETE; for user on CREATE and VIEW, never
\* on ASSIGN and DELETE, and on EDIT_STATUS exactly when an incident and a
\* caller id are passed and the incident's assignee equals the caller.
C1_PermissionMatrix ==
    call.done =>
        call.result =
            CASE call.teamRole = "admin" -> TRUE
              [] call.teamRole = "manager" -> call.permission # "delete"
              [] call.teamRole = "user" ->
                    \/ call.permission \in {"create", "view"}
                    \/ /\ call.permission = "edit_status"
                       /\ call.incident # NoIncident
                       /\ call.userId # Undefined
                       /\ call.incident.assigned_to_user_id = call.userId

\* a user's EDIT_STATUS on an incident assigned to somebody else is denied
C1_Witness ==
    /\ call.done
    /\ call.teamRole = "user"
    /\ call.permission = "edit_status"
    /\ call.incident # NoIncident
    /\ call.userId \in UserIds
    /\ call.incident.assigned_to_user_id \in UserIds \ {call.userId}
    /\ ~call.result

(* ---------------------------------------------------------------------- *)
(* SpecIncidents: one request to the incident endpoints by a signed-in     *)
(* user, from every membership table and the incident tables of team 1     *)
(* ---------------------------------------------------------------------- *)

\* PATCH bodies that name at most one field
PatchBodies ==
    {NoUpdates}
    \cup {[NoUpdates EXCEPT !.title = s] : s \in Strings}
    \cup {[NoUpdates EXCEPT !.description = s] : s \in Strings}
    \cup {[NoUpdates EXCEPT !.status = s] : s \in StatusInputs \ {"undefined"}}
    \cup {[NoUpdates EXCEPT !.assigned_to_user_id = u] :
            u \in UserIds \cup {Null}}

\* POST bodies: title and description
PostBodies ==
    {[NoUpdates EXCEPT !.title = s, !.description = d] :
        s \in Strings \cup {UndefinedStr}, d \in {UndefinedStr, <<"a">>}}

IncidentRequests ==
    {Request("POST /teams/:teamId/incidents", c, t, Undefined, "undefined",
             Undefined, b) :
        c \in UserIds, t \in TeamIds, b \in PostBodies}
    \cup
    {Request("PATCH /teams/:teamId/incidents/:incidentId", c, t, Undefined,
             "undefined", i, b) :
        c \in UserIds, t \in TeamIds, i \in 1 .. MaxIncidents,
        b \in PatchBodies}

InitIncidents ==
    /\ users = UserIds
    /\ team = TeamIds
    /\ team_user \in MembershipTables(users, team)
    /\ platform_manager = {}
    /\ incident \in IncidentTables(IncidentRows(users, {1},
                       {IncidentStatus.PENDING, IncidentStatus.RESOLVED}))
    /\ req \in IncidentRequests
    /\ res = NoResponse
    /\ call = NoCall
    /\ formerAssignees = {}
    /\ inflight = NoInflight

NextIncidents ==
    \/ Serve("POST /teams/:teamId/incidents",
             PostIncident(req.caller, req.teamId, req.updates.title,
                          req.updates.description))
    \/ Serve("PATCH /teams/:teamId/incidents/:incidentId",
             PatchIncident(req.caller, req.teamId, req.incidentId,
                           req.updates))

SpecIncidents == InitIncidents /\ [][NextIncidents]_vars

\* the PATCH request reaches the handler's field updates: the caller is a
\* member of the team and the incident is one of the team's
PatchReachesFields ==
    /\ Answers("PATCH /teams/:teamId/incidents/:incidentId")
    /\ getUserRoleInTeam(req.caller, req.teamId) # NullRole
    /\ req.incidentId \in DOMAIN incident
    /\ incident[req.incidentId].team_id = req.teamId

Listed(message) == \E i \in DOMAIN res'.errors : res'.errors[i] = message

\* C3: a title update, and likewise a description update, by a team member
\* is permitted exactly when the caller is the incident's reporter or the
\* caller's role is manager or admin; when it is not permitted it is refused
\* and the field is unchanged, also for the incident's assignee.
C3_TitleDescriptionByReporterOrElevated ==
    [][PatchReachesFields =>
        LET inc == incident[req.incidentId]
            after == incident'[req.incidentId]
            permitted ==
                \/ inc.reported_by_user_id = req.caller
                \/ getUserRoleInTeam(req.caller, req.teamId)
                      \in {TeamRole.MANAGER, TeamRole.ADMIN}
        IN /\ req.updates.title # UndefinedStr =>
                /\ permitted <=>
                     ~Listed("You do not have permission to edit the title")
                /\ ~permitted => after.title = inc.title /\ Refused
                /\ (permitted /\ trim(req.updates.title) # <<>>) =>
                     /\ after.title = trim(req.updates.title)
                     /\ res'.status = 200
           /\ req.updates.description # UndefinedStr =>
                /\ permitted <=>
                     ~Listed("You do not have permission to edit the description")
                /\ ~permitted =>
                     after.description = inc.description /\ Refused
                /\ permitted =>
                     /\ after.description =
                          (IF trim(req.updates.description) = <<>>
                           THEN NullStr ELSE trim(req.updates.description))
                     /\ res'.status = 200
    ]_vars

\* the incident's assignee, a user who did not report it, was refused a
\* title that differs from the stored one
C3_Witness ==
    /\ res.route = "PATCH /teams/:teamId/incidents/:incidentId"
    /\ res.status = 403
    /\ res.errors = <<"You do not have permission to edit the title">>
    /\ req.incidentId \in DOMAIN incident
    /\ incident[req.incidentId].assigned_to_user_id = req.caller
    /\ incident[req.incidentId].reported_by_user_id # req.caller
    /\ getUserRoleInTeam(req.caller, req.teamId) = TeamRole.USER
    /\ trim(req.updates.title) # <<>>
    /\ incident[req.incidentId].title # trim(req.updates.title)

(* ---------------------------------------------------------------------- *)
(* SpecLifecycle: requests served one after another on team 1, whose       *)
(* members are user 1 (role user at first) and user 2 (manager and         *)
(* platform manager): incidents are created, assigned and reassigned,      *)
(* their status is edited, and user 1's role is changed                    *)
(* ---------------------------------------------------------------------- *)

LifecycleStatuses == {IncidentStatus.UNDER_REVIEW}

InitLifecycle ==
    /\ users = UserIds
    /\ team = TeamIds
    /\ team_user = {[user_id |-> 1, team_id |-> 1, role |-> TeamRole.USER],
                    [user_id |-> 2, team_id |-> 1, role |-> TeamRole.MANAGER]}
    /\ platform_manager = {2}
    /\ incident = <<>>
    /\ req = NoRequest
    /\ res = NoResponse
    /\ call = NoCall
    /\ formerAssignees = {}
    /\ inflight = NoInflight

NextLifecycle ==
    \/ \E c \in UserIds :
          Handle(Request("POST /teams/:teamId/incidents", c, 1, Undefined,
                         "undefined", Undefined,
                         [NoUpdates EXCEPT !.title = <<"a">>]),
                 PostIncident(c, 1, <<"a">>, UndefinedStr))
    \/ \E c \in UserIds, i \in 1 .. MaxIncidents, s \in LifecycleStatuses :
          Handle(Request("PATCH /teams/:teamId/incidents/:incidentId", c, 1,
                         Undefined, "undefined", i,
                         [NoUpdates EXCEPT !.status = s]),
                 PatchIncident(c, 1, i, [NoUpdates EXCEPT !.status = s]))
    \/ \E c \in UserIds, i \in 1 .. MaxIncidents, u \in UserIds \cup {Null} :
          Handle(Request("PATCH /teams/:teamId/incidents/:incidentId", c, 1,
                         Undefined, "undefined", i,
                         [NoUpdates EXCEPT !.assigned_to_user_id = u]),
                 PatchIncident(c, 1, i,
                               [NoUpdates EXCEPT !.assigned_to_user_id = u]))
    \/ \E r \in Roles :
          Handle(Request("PUT /admin/teams/:teamId/members/:userId", 2, 1, 1,
                         r, Undefined, NoUpdates),
                 AdminPutMember(2, 1, 1, r))

SpecLifecycle == InitLifecycle /\ [][NextLifecycle]_vars

\* the step serves a PATCH that names a status, sent by a member with role
\* user whom an assignment replaced as the incident's assignee and whose role
\* has been user ever since
FormerAssigneeEditsStatus ==
    /\ req'.route = "PATCH /teams/:teamId/incidents/:incidentId"
    /\ req'.updates.status # "undefined"
    /\ <<req'.incidentId, req'.caller>> \in formerAssignees
    /\ getUserRoleInTeam(req'.caller, req'.teamId) = TeamRole.USER

\* the status update is refused and the incident's status is unchanged
StatusEditRefused ==
    /\ res'.status = 403
    /\ \E i \in DOMAIN res'.errors :
          res'.errors[i] = "You do not have permission to edit the status"
    /\ incident'[req'.incidentId].status = incident[req'.incidentId].status

\* C2 as stated: after a manager or admin has reassigned incident I away from
\* its assignee U, a member with role user, every later status update by U is
\* refused and leaves the status unchanged, as long as U's role stays user.
C2_AsStated ==
    [][FormerAssigneeEditsStatus => StatusEditRefused]_vars

\* C2: after a manager or admin has reassigned incident I away from its
\* assignee U, a member with role user, every later status update by U is
\* refused and leaves the status unchanged, as long as U's role stays user
\* and I has not been assigned to U again: the permission is computed from
\* the incident's assignee at the time of the request.
C2_RevokedOnReassignment ==
    [][(/\ FormerAssigneeEditsStatus
        /\ incident[req'.incidentId].assigned_to_user_id # req'.caller)
       => StatusEditRefused]_vars

\* user 1, replaced as the assignee of the incident, was refused a status
\* that differs from the stored one
C2_Witness ==
    /\ req.route = "PATCH /teams/:teamId/incidents/:incidentId"
    /\ req.updates.status # "undefined"
    /\ <<req.incidentId, req.caller>> \in formerAssignees
    /\ getUserRoleInTeam(req.caller, req.teamId) = TeamRole.USER
    /\ incident[req.incidentId].assigned_to_user_id # req.caller
    /\ incident[req.incidentId].status # req.updates.status
    /\ res.status = 403
    /\ res.errors = <<"You do not have permission to edit the status">>

(* ---------------------------------------------------------------------- *)
(* SpecAdminRace: /admin requests served concurrently. The router's        *)
(* platform-manager check awaits a query, and the handler's DELETE is a    *)
(* later query: another request's steps can run between the two            *)
(* ---------------------------------------------------------------------- *)

AdminRaceRequests ==
    {Request(rt, c, Undefined, u, "undefined", Undefined, NoUpdates) :
        rt \in {"DELETE /admin/managers/:userId",
                "DELETE /admin/users/:userId"},
        c \in UserIds, u \in UserIds}

InitAdminRace ==
    /\ users = UserIds
    /\ team = TeamIds
    /\ team_user \in {{}, {[user_id |-> 2, team_id |-> 1,
                            role |-> TeamRole.USER]}}
    /\ platform_manager \in SUBSET users \ {{}}
    /\ incident = <<>>
    /\ req = NoRequest
    /\ res = NoResponse
    /\ call = NoCall
    /\ formerAssignees = {}
    /\ inflight = NoInflight

\* the slot's request has sent its response
Sent(s, route, r) ==
    inflight' = [inflight EXCEPT
                   ![s].pc = "done",
                   ![s].res = [route |-> route, status |-> r.status,
                               message |-> r.message, errors |-> <<>>,
                               incidents |-> {}]]

\* a request arrives in a free slot
RaceArrive(s) ==
    /\ inflight[s].pc = "idle"
    /\ \E r \in AdminRaceRequests :
          inflight' = [inflight EXCEPT
                         ![s] = [Idle EXCEPT !.req = r, !.pc = "guard"]]
    /\ UNCHANGED <<db, req, res, call, formerAssignees>>

\* adminRouter.use: authMiddleware, then requirePlatformManager's SELECT
RaceGuard(s) ==
    /\ inflight[s].pc = "guard"
    /\ LET g == adminRouterUse(inflight[s].req.caller) IN
         IF g = Next_
         THEN inflight' = [inflight EXCEPT ![s].pc = "handler"]
         ELSE Sent(s, inflight[s].req.route, g)
    /\ UNCHANGED <<db, req, res, call, formerAssignees>>

\* the handler of DELETE /admin/managers/:userId: self check, then
\* removePlatformManager's DELETE
RaceDeleteManager(s) ==
    /\ inflight[s].pc = "handler"
    /\ inflight[s].req.route = "DELETE /admin/managers/:userId"
    /\ LET r == adminDeleteManagerHandler(inflight[s].req.caller,
                                          inflight[s].req.userId) IN
         /\ Sent(s, inflight[s].req.route, r)
         /\ platform_manager' = IF r.status = 200
                                THEN platform_manager \ {inflight[s].req.userId}
                                ELSE platform_manager
    /\ UNCHANGED <<users, team, team_user, incident, req, res, call,
                   formerAssignees>>

\* the handler of DELETE /admin/users/:userId: self check, then deleteUser's
\* DELETE, which cascades to platform_manager
RaceDeleteUser(s) ==
    /\ inflight[s].pc = "handler"
    /\ inflight[s].req.route = "DELETE /admin/users/:userId"
    /\ LET r == adminDeleteUserHandler(inflight[s].req.caller,
                                       inflight[s].req.userId) IN
         /\ Sent(s, inflight[s].req.route, r)
         /\ users' = IF r.status = 200
                     THEN users \ {inflight[s].req.userId} ELSE users
         /\ platform_manager' = IF r.status = 200
                                THEN platform_manager \ {inflight[s].req.userId}
                                ELSE platform_manager
    /\ UNCHANGED <<team, team_user, incident, req, res, call,
                   formerAssignees>>

\* the response is out: the slot is free again
RaceFinish(s) ==
    /\ inflight[s].pc = "done"
    /\ inflight' = [inflight EXCEPT ![s] = Idle]
    /\ UNCHANGED <<db, req, res, call, formerAssignees>>

NextAdminRace ==
    \E s \in Slots :
        \/ RaceArrive(s)
        \/ RaceGuard(s)
        \/ RaceDeleteManager(s)
        \/ RaceDeleteUser(s)
        \/ RaceFinish(s)

SpecAdminRace == InitAdminRace /\ [][NextAdminRace]_vars

\* C11: a platform-manager set that is not empty never becomes empty, whatever
\* /admin requests are served and however their steps interleave.
C11_ManagerSetNeverEmptied ==
    [][platform_manager # {} => platform_manager' # {}]_vars

(* ---------------------------------------------------------------------- *)
(* Incident lifecycle properties (SpecLifecycle)                           *)
(* ---------------------------------------------------------------------- *)

\* the step serves a PATCH of an incident of the request's team
PatchServed ==
    /\ req'.route = "PATCH /teams/:teamId/incidents/:incidentId"
    /\ req'.incidentId \in DOMAIN incident
    /\ incident[req'.incidentId].team_id = req'.teamId

\* the caller's role in the request's team when the step starts
CallerRole == getUserRoleInTeam(req'.caller, req'.teamId)

\* C12: the scenario's steps have the stated outcomes, each from the state
\* the step before it leaves: a user-role member's creation yields a pending,
\* unassigned incident reported by them; their status update on an incident
\* not assigned to them is refused and changes nothing; a manager's or
\* admin's assignment to a user succeeds; the assignee's status update then
\* succeeds; a user-role member's assignment is refused and the assignee
\* stays.
C12_ReportAssignWorkScenario ==
    [][/\ ( /\ req'.route = "POST /teams/:teamId/incidents"
            /\ CallerRole = TeamRole.USER ) =>
              /\ res'.status = 201
              /\ Len(incident') = Len(incident) + 1
              /\ incident'[Len(incident')].status = IncidentStatus.PENDING
              /\ incident'[Len(incident')].assigned_to_user_id = Null
              /\ incident'[Len(incident')].reported_by_user_id = req'.caller
              /\ incident'[Len(incident')].team_id = req'.teamId
       /\ ( /\ PatchServed
            /\ CallerRole = TeamRole.USER
            /\ req'.updates.status # "undefined"
            /\ incident[req'.incidentId].assigned_to_user_id # req'.caller ) =>
              /\ res'.status = 403
              /\ incident' = incident
       /\ ( /\ PatchServed
            /\ CallerRole \in {TeamRole.MANAGER, TeamRole.ADMIN}
            /\ req'.updates.assigned_to_user_id \in users ) =>
              /\ res'.status = 200
              /\ incident'[req'.incidentId].assigned_to_user_id
                   = req'.updates.assigned_to_user_id
       /\ ( /\ PatchServed
            /\ CallerRole = TeamRole.USER
            /\ req'.updates.status \in validStatuses
            /\ incident[req'.incidentId].assigned_to_user_id = req'.caller ) =>
              /\ res'.status = 200
              /\ incident'[req'.incidentId].status = req'.updates.status
       /\ ( /\ PatchServed
            /\ CallerRole = TeamRole.USER
            /\ req'.updates.assigned_to_user_id # Undefined ) =>
              /\ res'.status = 403
              /\ incident' = incident
    ]_vars

\* the end of the scenario: the reporter, a user-role member to whom the
\* incident was assigned and who put it under review, was refused its
\* reassignment to another user
C12_Witness ==
    /\ req.route = "PATCH /teams/:teamId/incidents/:incidentId"
    /\ req.updates.assigned_to_user_id \in users \ {req.caller}
    /\ getUserRoleInTeam(req.caller, req.teamId) = TeamRole.USER
    /\ res.status = 403
    /\ res.errors = <<"You do not have permission to assign incidents">>
    /\ incident[req.incidentId].reported_by_user_id = req.caller
    /\ incident[req.incidentId].assigned_to_user_id = req.caller
    /\ incident[req.incidentId].status = IncidentStatus.UNDER_REVIEW

(* ---------------------------------------------------------------------- *)
(* SpecStatus: one status update by a signed-in user on team 1, from every *)
(* membership table of team 1 and every incident of any status             *)
(* ---------------------------------------------------------------------- *)

StatusRequests ==
    {Request("PATCH /teams/:teamId/incidents/:incidentId", c, 1, Undefined,
             "undefined", i, [NoUpdates EXCEPT !.status = s]) :
        c \in UserIds, i \in 1 .. MaxIncidents,
        s \in StatusInputs \ {"undefined"}}

InitStatus ==
    /\ users = UserIds
    /\ team = TeamIds
    /\ team_user \in MembershipTables(users, {1})
    /\ platform_manager = {}
    /\ incident \in IncidentTables(IncidentRows(users, {1}, validStatuses))
    /\ req \in StatusRequests
    /\ res = NoResponse
    /\ call = NoCall
    /\ formerAssignees = {}
    /\ inflight = NoInflight

NextStatus ==
    Serve("PATCH /teams/:teamId/incidents/:incidentId",
          PatchIncident(req.caller, req.teamId, req.incidentId, req.updates))

SpecStatus == InitStatus /\ [][NextStatus]_vars

\* C13: a status update to any of the four statuses by a caller holding
\* EDIT_STATUS (a manager, an admin, or the incident's assignee) succeeds and
\* is stored in one request whatever the incident's current status, the new
\* status included; the only refusal of a valid status is the permission's.
C13_AnyStatusToAnyStatus ==
    [][(PatchReachesFields /\ req.updates.status \in validStatuses) =>
        LET inc == incident[req.incidentId]
            holdsEditStatus ==
                \/ getUserRoleInTeam(req.caller, req.teamId)
                      \in {TeamRole.MANAGER, TeamRole.ADMIN}
                \/ inc.assigned_to_user_id = req.caller
        IN /\ holdsEditStatus =>
                /\ res'.status = 200
                /\ res'.errors = <<>>
                /\ incident'[req.incidentId].status = req.updates.status
           /\ ~holdsEditStatus =>
                /\ res'.status = 403
                /\ res'.errors =
                     <<"You do not have permission to edit the status">>
                /\ incident' = incident
    ]_vars

\* the assignee, a user-role member, took a resolved incident straight back
\* to pending
C13_Witness ==
    /\ res.status = 200
    /\ req.updates.status = IncidentStatus.PENDING
    /\ getUserRoleInTeam(req.caller, req.teamId) = TeamRole.USER
    /\ call.done
    /\ call.permission = IncidentPermission.EDIT_STATUS
    /\ call.incident.status = IncidentStatus.RESOLVED
    /\ call.incident.id = req.incidentId
    /\ call.result
    /\ incident[req.incidentId].status = IncidentStatus.PENDING

\* C14: POST /teams/:teamId/incidents by a member of the team, whatever their
\* role, with a title that is not blank creates exactly one incident: status
\* pending, no assignee, reporter the caller, team the requested team; the
\* incidents already stored are unchanged; a caller who is not a member of
\* the team is refused and creates nothing.
C14_CreationStartsPendingUnassigned ==
    [][Answers("POST /teams/:teamId/incidents") =>
        LET role == getUserRoleInTeam(req.caller, req.teamId)
            new == incident'[Len(incident')]
        IN /\ ( /\ role \in Roles
                /\ req.updates.title # UndefinedStr
                /\ trim(req.updates.title) # <<>> ) =>
                  /\ res'.status = 201
                  /\ Len(incident') = Len(incident) + 1
           /\ role = NullRole =>
                  /\ res'.status = 403
                  /\ incident' = incident
           /\ incident' # incident =>
                  /\ Len(incident') = Len(incident) + 1
                  /\ SubSeq(incident', 1, Len(incident)) = incident
                  /\ new.status = IncidentStatus.PENDING
                  /\ new.assigned_to_user_id = Null
                  /\ new.reported_by_user_id = req.caller
                  /\ new.team_id = req.teamId
                  /\ new.title = trim(req.updates.title)
    ]_vars

\* a manager of team 2 created an incident there
C14_Witness ==
    /\ res.route = "POST /teams/:teamId/incidents"
    /\ res.status = 201
    /\ req.teamId = 2
    /\ getUserRoleInTeam(req.caller, req.teamId) = TeamRole.MANAGER
    /\ incident # <<>>
    /\ incident[Len(incident)].team_id = 2
    /\ incident[Len(incident)].reported_by_user_id = req.caller
    /\ incident[Len(incident)].assigned_to_user_id = Null
    /\ incident[Len(incident)].status = IncidentStatus.PENDING

(* ---------------------------------------------------------------------- *)
(* SpecAll: one request by a signed-in user to any modelled endpoint       *)
(* (incidents, team members, /admin), from every membership table and the  *)
(* incident tables of team 1; user 1 is the platform manager               *)
(* ---------------------------------------------------------------------- *)

AllRequests ==
    IncidentRequests \cup
    {r \in TeamRequests \cup AdminRequests :
        r.caller # Undefined /\ r.role # "owner"}

InitAll ==
    /\ users = UserIds
    /\ team = TeamIds
    /\ team_user \in MembershipTables(users, team)
    /\ platform_manager = {1}
    /\ incident \in IncidentTables(
                      IncidentRows(users, {1}, {IncidentStatus.PENDING}))
    /\ req \in AllRequests
    /\ res = NoResponse
    /\ call = NoCall
    /\ formerAssignees = {}
    /\ inflight = NoInflight

NextAll == NextIncidents \/ NextTeams \/ NextAdmin

SpecAll == InitAll /\ [][NextAll]_vars

\* C15: no operation changes an incident's reporter: every step keeps every
\* stored incident, with the reporter it had, and an incident the step
\* creates has the creating caller as its reporter.
C15_ReporterNeverChanges ==
    [][/\ \A i \in DOMAIN incident :
            /\ i \in DOMAIN incident'
            /\ incident'[i].reported_by_user_id
                 = incident[i].reported_by_user_id
       /\ \A i \in DOMAIN incident' \ DOMAIN incident :
            incident'[i].reported_by_user_id = req.caller
    ]_vars

\* a manager or admin who did not report the incident assigned it to
\* themselves: the reporter is still the other user
C15_Witness ==
    /\ res.route = "PATCH /teams/:teamId/incidents/:incidentId"
    /\ res.status = 200
    /\ req.updates.assigned_to_user_id = req.caller
    /\ incident[req.incidentId].assigned_to_user_id = req.caller
    /\ incident[req.incidentId].reported_by_user_id # req.caller

(* ---------------------------------------------------------------------- *)
(* SpecGuard: calls of the middleware requireTeamRole(...allowedRoles) and *)
(* requireTeamMembership(), for every caller, team id and set of allowed   *)
(* roles, against every membership table                                   *)
(* ---------------------------------------------------------------------- *)

\* req.params.teamId: a team's id, or none that parseInt makes a number of
TeamIdInputs == TeamIds \cup {Undefined}

\* how many times one middleware call is repeated
MaxInvocations == 3

GuardCalls ==
    [fn : {"requireTeamRole"}, caller : Callers, teamId : TeamIdInputs,
     allowedRoles : SUBSET Roles, seen : {{}}, invocations : {0},
     done : {FALSE}, result : {Next_}]
    \cup
    [fn : {"requireTeamMembership"}, caller : Callers, teamId : TeamIdInputs,
     allowedRoles : {Roles}, seen : {{}}, invocations : {0},
     done : {FALSE}, result : {Next_}]

InitGuard ==
    /\ users = UserIds
    /\ team = TeamIds
    /\ team_user \in MembershipTables(users, team)
    /\ platform_manager = {}
    /\ incident = <<>>
    /\ req = NoRequest
    /\ res = NoResponse
    /\ formerAssignees = {}
    /\ inflight = NoInflight
    /\ call \in GuardCalls

\* what the middleware of the call answers in the current state
guardVerdict ==
    IF call.fn = "requireTeamRole"
    THEN requireTeamRole(call.caller, call.teamId, call.allowedRoles)
    ELSE requireTeamMembership(call.caller, call.teamId)

\* the middleware runs: it answers with a denial or calls next(); `seen`
\* keeps each membership table it has read with the verdict it then gave
InvokeGuard ==
    /\ call.invocations < MaxInvocations
    /\ call' = [call EXCEPT
                  !.done = TRUE,
                  !.invocations = @ + 1,
                  !.seen = @ \cup {[snapshot |-> team_user,
                                     result |-> guardVerdict]},
                  !.result = guardVerdict]
    /\ UNCHANGED <<db, req, res, formerAssignees, inflight>>

NextGuard == InvokeGuard

SpecGuard == InitGuard /\ [][NextGuard]_vars

\* the caller has a membership row in the team the call names
CallerIsMember ==
    \E m \in team_user :
        m.user_id = call.caller /\ m.team_id = call.teamId

\* the caller's membership in that team has one of the allowed roles
CallerRoleAllowed ==
    \E m \in team_user :
        /\ m.user_id = call.caller /\ m.team_id = call.teamId
        /\ m.role \in call.allowedRoles

InitGuardReplay ==
    /\ users = UserIds
    /\ team = TeamIds
    /\ team_user \in MembershipTables({2}, {1})
    /\ platform_manager = {2}
    /\ incident = <<>>
    /\ req = NoRequest
    /\ res = NoResponse
    /\ formerAssignees = {}
    /\ inflight = NoInflight
    /\ call \in GuardCalls

NextGuardReplay ==
    \/ InvokeGuard
    \/ \E r \in Roles :
          Handle(Request("POST /admin/teams/:teamId/members", 2, 1, 1, r,
                         Undefined, NoUpdates),
                 AdminPostMember(2, 1, 1, r))
    \/ \E r \in Roles :
          Handle(Request("PUT /admin/teams/:teamId/members/:userId", 2, 1, 1,
                         r, Undefined, NoUpdates),
                 AdminPutMember(2, 1, 1, r))
    \/ Handle(Request("DELETE /admin/teams/:teamId/members/:userId", 2, 1, 1,
                      "undefined", Undefined, NoUpdates),
              AdminDeleteMember(2, 1, 1))

SpecGuardReplay == InitGuardReplay /\ [][NextGuardReplay]_vars

AddRaceRequests ==
    {Request("POST /teams/:teamId/members", 1, 1, u, r, Undefined,
             NoUpdates) : u \in UserIds, r \in Roles}
    \cup
    {Request("POST /admin/teams/:teamId/members", 2, 1, u, r, Undefined,
             NoUpdates) : u \in UserIds, r \in Roles}

InitAddRace ==
    /\ users = UserIds
    /\ team = TeamIds
    /\ team_user = {[user_id |-> 1, team_id |-> 1, role |-> TeamRole.ADMIN]}
    /\ platform_manager = {2}
    /\ incident = <<>>
    /\ req = NoRequest
    /\ res = NoResponse
    /\ call = NoCall
    /\ formerAssignees = {}
    /\ inflight = NoInflight

\* a request arrives in a free slot
AddArrive(s) ==
    /\ inflight[s].pc = "idle"
    /\ \E r \in AddRaceRequests :
          inflight' = [inflight EXCEPT
                         ![s] = [Idle EXCEPT !.req = r, !.pc = "check"]]
    /\ UNCHANGED <<db, req, res, call, formerAssignees>>

\* the guards and the handler up to `await isUserInTeam(...)`: a refusal is
\* sent, otherwise the handler goes on to addUserToTeam
AddCheck(s) ==
    /\ inflight[s].pc = "check"
    /\ LET q == inflight[s].req
           r == IF q.route = "POST /teams/:teamId/members"
                THEN teamPostMemberResponse(q.caller, q.teamId, q.userId,
                                            q.role)
                ELSE adminPostMemberResponse(q.caller, q.teamId, q.userId,
                                             q.role) IN
         IF r.status = 201
         THEN inflight' = [inflight EXCEPT ![s].pc = "insert"]
         ELSE Sent(s, q.route, r)
    /\ UNCHANGED <<db, req, res, call, formerAssignees>>

\* `await addUserToTeam(...)`: the INSERT, whose rejection by the table is
\* caught and answered with 500
AddInsert(s) ==
    /\ inflight[s].pc = "insert"
    /\ LET q == inflight[s].req IN
         IF teamUserInsertAllowed(q.userId, q.teamId, roleOrDefault(q.role))
         THEN /\ team_user' = addUserToTeam(q.userId, q.teamId,
                                            roleOrDefault(q.role))
              /\ Sent(s, q.route, R(201, "User added to team"))
         ELSE /\ team_user' = team_user
              /\ Sent(s, q.route, R(500, "Internal server error"))
    /\ UNCHANGED <<users, team, platform_manager, incident, req, res, call,
                   formerAssignees>>

NextAddRace ==
    \E s \in Slots :
        \/ AddArrive(s)
        \/ AddCheck(s)
        \/ AddInsert(s)
        \/ RaceFinish(s)

SpecAddRace == InitAddRace /\ [][NextAddRace]_vars

\* at most one row per (user, team), its role one of the three
OneMembershipPerPair ==
    \A m, n \in team_user :
        /\ m.role \in Roles
        /\ (m.user_id = n.user_id /\ m.team_id = n.team_id) => m = n

\* slot s sends the answer to its add request in this step
AddAnswered(s) ==
    inflight[s].pc \in {"check", "insert"} /\ inflight'[s].pc = "done"

\* C18: there is always at most one membership, with one role of user,
\* manager, admin, per (user, team); an add request answered while its user
\* is already a member of the team is refused and changes no membership,
\* through POST /teams/:teamId/members and POST /admin/teams/:teamId/members
\* alike; of two add requests for one pair in flight together at most one
\* is answered 201.
C18_OneMembershipPerPair ==
    /\ OneMembershipPerPair
    /\ [][/\ OneMembershipPerPair'
          /\ \A s \in Slots :
                (/\ AddAnswered(s)
                 /\ isUserInTeam(inflight[s].req.userId,
                                 inflight[s].req.teamId)) =>
                    /\ inflight'[s].res.status \notin {200, 201}
                    /\ team_user' = team_user
          /\ \A s, t \in Slots :
                (/\ s # t
                 /\ inflight'[s].res.status = 201
                 /\ inflight'[t].res.status = 201
                 /\ inflight'[s].req.userId = inflight'[t].req.userId
                 /\ inflight'[s].req.teamId = inflight'[t].req.teamId) =>
                    FALSE]_vars

\* two add requests for user 2 and team 1, one through each endpoint, both
\* passed the membership check; one created the membership and the other's
\* INSERT was rejected
C18_Witness ==
    /\ inflight[1].req.route = "POST /teams/:teamId/members"
    /\ inflight[2].req.route = "POST /admin/teams/:teamId/members"
    /\ inflight[1].req.userId = 2
    /\ inflight[2].req.userId = 2
    /\ inflight[1].res.status = 201
    /\ inflight[2].res.status = 500
    /\ Cardinality(membershipRows(2, 1)) = 1

(* ---------------------------------------------------------------------- *)
(* Validation of the status value (checked under SpecStatus)               *)
(* ---------------------------------------------------------------------- *)

\* every stored incident has one of the four statuses
StatusesValid ==
    \A i \in DOMAIN incident : incident[i].status \in validStatuses

\* C19: a status update whose value is none of pending, under_review,
\* escalated, resolved is refused with the 'Invalid status' error alone, for
\* a caller of any role, no EDIT_STATUS permission check is made for it, and
\* the stored incidents are unchanged; every stored status is always one of
\* the four.
C19_InvalidStatusRejectedFirst ==
    /\ StatusesValid
    /\ [][/\ StatusesValid'
          /\ (PatchReachesFields /\ req.updates.status \notin validStatuses)
                =>
                /\ res'.status = 403
                /\ res'.errors =
                     <<"Invalid status. Must be one of: pending, under_review, escalated, resolved">>
                /\ call' = call
                /\ incident' = incident]_vars

\* a user-role member who is not the assignee sent status 'closed': the
\* answer names the invalid value, not the missing permission
C19_Witness ==
    /\ req.updates.status = "closed"
    /\ req.incidentId \in DOMAIN incident
    /\ getUserRoleInTeam(req.caller, req.teamId) = TeamRole.USER
    /\ incident[req.incidentId].assigned_to_user_id # req.caller
    /\ res.status = 403
    /\ res.errors =
         <<"Invalid status. Must be one of: pending, under_review, escalated, resolved">>
    /\ ~call.done

(* ---------------------------------------------------------------------- *)
(* Clearing the assignee (checked under SpecLifecycle)                     *)
(* ---------------------------------------------------------------------- *)

\* C20: a manager's or admin's request to set an incident's assignee to
\* unassigned succeeds and a user-role member's is refused and changes
\* nothing; while an incident is unassigned every status update on it by a
\* user-role member is refused and leaves the status unchanged, and the only
\* step that gives it an assignee again is an assignment by a manager or
\* admin.
C20_ClearedAssigneeLocksStatus ==
    [][/\ ( /\ PatchServed
            /\ CallerRole \in {TeamRole.MANAGER, TeamRole.ADMIN}
            /\ req'.updates.assigned_to_user_id = Null ) =>
              /\ res'.status = 200
              /\ incident'[req'.incidentId].assigned_to_user_id = Null
       /\ ( /\ PatchServed
            /\ CallerRole = TeamRole.USER
            /\ req'.updates.assigned_to_user_id = Null ) =>
              /\ res'.status = 403
              /\ incident' = incident
       /\ ( /\ PatchServed
            /\ CallerRole = TeamRole.USER
            /\ req'.updates.status # "undefined"
            /\ incident[req'.incidentId].assigned_to_user_id = Null ) =>
              StatusEditRefused
       /\ \A i \in DOMAIN incident :
            ( /\ incident[i].assigned_to_user_id = Null
              /\ incident'[i].assigned_to_user_id # Null ) =>
                /\ PatchServed
                /\ req'.incidentId = i
                /\ CallerRole \in {TeamRole.MANAGER, TeamRole.ADMIN}
                /\ req'.updates.assigned_to_user_id
                     = incident'[i].assigned_to_user_id
    ]_vars

\* the incident's assignee was cleared, and the former assignee, still a
\* user-role member, was then refused a status update on it
C20_Witness ==
    /\ req.route = "PATCH /teams/:teamId/incidents/:incidentId"
    /\ req.updates.status # "undefined"
    /\ req.incidentId \in DOMAIN incident
    /\ incident[req.incidentId].assigned_to_user_id = Null
    /\ <<req.incidentId, req.caller>> \in formerAssignees
    /\ getUserRoleInTeam(req.caller, req.teamId) = TeamRole.USER
    /\ res.status = 403
    /\ res.errors = <<"You do not have permission to edit the status">>
    /\ incident[req.incidentId].status = IncidentStatus.PENDING

(* ---------------------------------------------------------------------- *)
(* Assignment to a user outside the team (checked under SpecIncidents)     *)
(* ---------------------------------------------------------------------- *)

\* C21: an assignment by a manager or admin of the incident's team to an
\* existing user succeeds and stores that user as the assignee whether or
\* not the user is a member of the team, and an assignment by a user-role
\* member is refused whoever the assignee is: only the caller's ASSIGN
\* permission decides.
C21_AssigneeMembershipUnchecked ==
    [][(PatchReachesFields /\ req.updates.assigned_to_user_id \in users) =>
        IF getUserRoleInTeam(req.caller, req.teamId)
              \in {TeamRole.MANAGER, TeamRole.ADMIN}
        THEN /\ res'.status = 200
             /\ res'.errors = <<>>
             /\ incident'[req.incidentId].assigned_to_user_id
                  = req.updates.assigned_to_user_id
        ELSE /\ res'.status = 403
             /\ incident' = incident
    ]_vars

\* a manager or admin made a user with no membership in the incident's team
\* its assignee
C21_Witness ==
    /\ req.route = "PATCH /teams/:teamId/incidents/:incidentId"
    /\ res.status = 200
    /\ req.updates.assigned_to_user_id \in users
    /\ call.done
    /\ call.permission = IncidentPermission.ASSIGN
    /\ call.result
    /\ incident[req.incidentId].assigned_to_user_id
         = req.updates.assigned_to_user_id
    /\ ~isUserInTeam(incident[req.incidentId].assigned_to_user_id,
                     incident[req.incidentId].team_id)

(* ---------------------------------------------------------------------- *)
(* SpecPatchRace: up to two PATCH requests on incident 1 of team 1 in      *)
(* flight at once; every awaited query of the handler is a step of its     *)
(* own. User 1 reported the incident; user 2, admin of the team, also      *)
(* changes user 1's role between user and manager.                         *)
(* ---------------------------------------------------------------------- *)

PatchFields == <<"title", "description", "status", "assign">>

\* what the handler decides for the field, from its local inc and userRole
fieldStep(f, inc, userRole, userId, updates) ==
    CASE f = "title" -> titleStep(inc, userRole, userId, updates)
      [] f = "description" -> descriptionStep(inc, userRole, userId, updates)
      [] f = "status" -> statusStep(inc, userRole, userId, updates)
      [] f = "assign" -> assignStep(inc, userRole, userId, updates)

\* the next field after the k-th for which the handler awaits an UPDATE, or
\* "respond" when there is none
nextWrite(k, inc, userRole, userId, updates) ==
    LET later == {j \in (k + 1) .. Len(PatchFields) :
                     fieldStep(PatchFields[j], inc, userRole, userId, updates)
                         \in {"write", "throw"}}
    IN IF later = {} THEN "respond"
       ELSE PatchFields[CHOOSE j \in later : \A l \in later : j <= l]

\* fault: the UPDATE of the status or the assignee changes no row
columnWrite_NothingStored(row, f, updates) ==
    CASE f = "title" -> [row EXCEPT !.title = trim(updates.title)]
      [] f = "description" ->
            [row EXCEPT !.description =
                IF trim(updates.description) = <<>> THEN NullStr
                ELSE trim(updates.description)]
      [] f = "status" -> row
      [] f = "assign" -> row

\* fault: the status UPDATE also clears the assignee
columnWrite_StatusClearsAssignee(row, f, updates) ==
    CASE f = "title" -> [row EXCEPT !.title = trim(updates.title)]
      [] f = "description" ->
            [row EXCEPT !.description =
                IF trim(updates.description) = <<>> THEN NullStr
                ELSE trim(updates.description)]
      [] f = "status" -> [row EXCEPT !.status = updates.status,
                                     !.assigned_to_user_id = Null]
      [] f = "assign" ->
            [row EXCEPT !.assigned_to_user_id = updates.assigned_to_user_id]

\* UPDATE incident SET <the field's column> = ? WHERE id = ?
columnWrite(row, f, updates) ==
    CASE f = "title" -> [row EXCEPT !.title = trim(updates.title)]
      [] f = "description" ->
            [row EXCEPT !.description =
                IF trim(updates.description) = <<>> THEN NullStr
                ELSE trim(updates.description)]
      [] f = "status" -> [row EXCEPT !.status = updates.status]
      [] f = "assign" ->
            [row EXCEPT !.assigned_to_user_id = updates.assigned_to_user_id]

PatchRaceRequests ==
    {Request("PATCH /teams/:teamId/incidents/:incidentId", c, 1, Undefined,
             "undefined", 1, b) :
        c \in UserIds,
        b \in {[NoUpdates EXCEPT !.status = st] :
                  st \in {IncidentStatus.UNDER_REVIEW,
                          IncidentStatus.RESOLVED}}
              \cup {[NoUpdates EXCEPT !.assigned_to_user_id = u] :
                      u \in UserIds}}

InitPatchRace ==
    /\ users = UserIds
    /\ team = TeamIds
    /\ team_user = {[user_id |-> 1, team_id |-> 1, role |-> TeamRole.USER],
                    [user_id |-> 2, team_id |-> 1, role |-> TeamRole.ADMIN]}
    /\ platform_manager = {}
    /\ incident = <<[id |-> 1, title |-> <<"b">>, description |-> NullStr,
                     status |-> IncidentStatus.PENDING, team_id |-> 1,
                     reported_by_user_id |-> 1,
                     assigned_to_user_id |-> 1]>>
    /\ req = NoRequest
    /\ res = NoResponse
    /\ call = NoCall
    /\ formerAssignees = {}
    /\ inflight = NoInflight

\* a request arrives in a free slot
PatchArrive(s) ==
    /\ inflight[s].pc = "idle"
    /\ \E r \in PatchRaceRequests :
          inflight' = [inflight EXCEPT
                         ![s] = [Idle EXCEPT !.req = r, !.pc = "guard"]]
    /\ UNCHANGED <<db, req, res, call, formerAssignees>>

\* authMiddleware, then requireTeamMembership's SELECT
PatchGuard(s) ==
    /\ inflight[s].pc = "guard"
    /\ LET q == inflight[s].req
           g == Chain(authMiddleware(q.caller),
                      requireTeamMembership(q.caller, q.teamId)) IN
         IF g = Next_
         THEN inflight' = [inflight EXCEPT ![s].pc = "read"]
         ELSE Sent(s, q.route, g)
    /\ UNCHANGED <<db, req, res, call, formerAssignees>>

\* const incident = await findIncidentById(incidentId)
PatchRead(s) ==
    /\ inflight[s].pc = "read"
    /\ LET q == inflight[s].req
           inc == findIncidentById(q.incidentId) IN
         IF inc.id = Undefined \/ inc.team_id # q.teamId
         THEN Sent(s, q.route, R(404, "Incident not found"))
         ELSE inflight' = [inflight EXCEPT ![s].pc = "role", ![s].inc = inc]
    /\ UNCHANGED <<db, req, res, call, formerAssignees>>

\* const userRole = await getUserRoleInTeam(userId, teamId); the handler
\* then runs on to the first UPDATE it awaits
PatchRole(s) ==
    /\ inflight[s].pc = "role"
    /\ LET q == inflight[s].req
           userRole == getUserRoleInTeam(q.caller, q.teamId) IN
         IF userRole = NullRole
         THEN Sent(s, q.route, R(403, "You are not a member of this team"))
         ELSE inflight' = [inflight EXCEPT
                             ![s].userRole = userRole,
                             ![s].pc = nextWrite(0, inflight[s].inc, userRole,
                                                 q.caller, q.updates)]
    /\ UNCHANGED <<db, req, res, call, formerAssignees>>

\* the awaited UPDATE of field f; the handler then runs on to the next
\* UPDATE it awaits; a foreign-key error is caught and answered with 500
PatchWrite(s, f) ==
    /\ inflight[s].pc = f
    /\ LET q == inflight[s].req
           k == CHOOSE j \in DOMAIN PatchFields : PatchFields[j] = f
           now == fieldStep(f, findIncidentById(q.incidentId),
                            getUserRoleInTeam(q.caller, q.teamId),
                            q.caller, q.updates)
       IN
         IF fieldStep(f, inflight[s].inc, inflight[s].userRole, q.caller,
                      q.updates) = "throw"
         THEN /\ Sent(s, q.route, R(500, "Internal server error"))
              /\ incident' = incident
         ELSE /\ incident' =
                   [incident EXCEPT
                      ![q.incidentId] = columnWrite(@, f, q.updates)]
              /\ inflight' =
                   [inflight EXCEPT
                      ![s].stale = @ \/ now # "write",
                      ![s].pc = nextWrite(k, inflight[s].inc,
                                          inflight[s].userRole, q.caller,
                                          q.updates)]
    /\ UNCHANGED <<users, team, team_user, platform_manager, req, res, call,
                   formerAssignees>>

\* the errors are returned if nothing was updated, else the incident is
\* read again and returned
PatchRespond(s) ==
    /\ inflight[s].pc = "respond"
    /\ LET q == inflight[s].req
           errors == patchErrors(inflight[s].inc, inflight[s].userRole,
                                 q.caller, q.updates)
           updated == patchUpdated(inflight[s].inc, inflight[s].userRole,
                                   q.caller, q.updates)
           r == IF errors # <<>> /\ ~updated THEN R(403, "Permission denied")
                ELSE IF updated THEN R(200, "Incident updated successfully")
                ELSE R(200, "No changes made")
       IN inflight' = [inflight EXCEPT
                         ![s].pc = "done",
                         ![s].res = [route |-> q.route, status |-> r.status,
                                     message |-> r.message,
                                     errors |-> errors,
                                     incidents |->
                                        IF r.status = 200
                                        THEN {findIncidentById(q.incidentId)}
                                        ELSE {}]]
    /\ UNCHANGED <<db, req, res, call, formerAssignees>>

NextPatchRace ==
    \/ \E s \in Slots :
          \/ PatchArrive(s)
          \/ PatchGuard(s)
          \/ PatchRead(s)
          \/ PatchRole(s)
          \/ \E f \in {"status", "assign"} : PatchWrite(s, f)
          \/ PatchRespond(s)
          \/ RaceFinish(s)
    \/ \E r \in {TeamRole.USER, TeamRole.MANAGER} :
          /\ TeamPutMember(2, 1, 1, r)
          /\ UNCHANGED <<req, formerAssignees, inflight>>

SpecPatchRace == InitPatchRace /\ [][NextPatchRace]_vars

\* slot s applies the UPDATE of field f to incident i in this step
Writes(s, f, i) ==
    /\ inflight[s].pc = f
    /\ inflight[s].req.incidentId = i
    /\ inflight'[s].pc \notin {f, "done"}

\* C22: every change of an incident's status is the write of a request
\* that read the incident in its own team and read a role of admin or
\* manager for its caller, or read the caller as the incident's assignee and
\* as a member; every change of an incident's assignee is the write of a
\* request that read a role of manager or admin for its caller.
C22_ChangesWereAuthorisedWhenRead ==
    [][\A i \in DOMAIN incident :
         /\ incident'[i].status # incident[i].status =>
               \E s \in Slots :
                  /\ Writes(s, "status", i)
                  /\ incident'[i].status = inflight[s].req.updates.status
                  /\ inflight[s].inc.id = i
                  /\ inflight[s].inc.team_id = inflight[s].req.teamId
                  /\ \/ inflight[s].userRole
                          \in {TeamRole.ADMIN, TeamRole.MANAGER}
                     \/ /\ inflight[s].userRole = TeamRole.USER
                        /\ inflight[s].inc.assigned_to_user_id
                             = inflight[s].req.caller
         /\ incident'[i].assigned_to_user_id
               # incident[i].assigned_to_user_id =>
               \E s \in Slots :
                  /\ Writes(s, "assign", i)
                  /\ incident'[i].assigned_to_user_id
                       = inflight[s].req.updates.assigned_to_user_id
                  /\ inflight[s].inc.id = i
                  /\ inflight[s].inc.team_id = inflight[s].req.teamId
                  /\ inflight[s].userRole
                       \in {TeamRole.ADMIN, TeamRole.MANAGER}
    ]_vars

\* user 1 changed the status as the assignee with role user, and the admin
\* changed the assignee
C22_Witness ==
    /\ inflight[1].req.caller = 1
    /\ inflight[1].userRole = TeamRole.USER
    /\ inflight[1].inc.assigned_to_user_id = 1
    /\ inflight[1].res.status = 200
    /\ incident[1].status = inflight[1].req.updates.status
    /\ incident[1].status # inflight[1].inc.status
    /\ inflight[2].req.caller = 2
    /\ inflight[2].userRole = TeamRole.ADMIN
    /\ inflight[2].res.status = 200
    /\ inflight[2].req.updates.assigned_to_user_id = 2
    /\ incident[1].assigned_to_user_id = 2

\* slot s sends the answer of the handler's last lines in this step
Responds(s) == inflight[s].pc = "respond" /\ inflight'[s].pc = "done"

\* C23: with PATCH requests on one incident interleaved, the UPDATE of a
\* permitted status update sets the status to the request's value and
\* leaves every other field as stored, the UPDATE of a permitted assignee
\* update does the same for the assignee, so the value stored is that of
\* the write applied last; and a request whose update was permitted when it
\* read the incident reports success whatever the other request did.
C23_ConcurrentUpdatesLastWriteWins ==
    [][\A s \in Slots :
         LET q == inflight[s].req
             i == q.incidentId
         IN
         /\ Writes(s, "status", i) =>
               incident' = [incident EXCEPT ![i].status = q.updates.status]
         /\ Writes(s, "assign", i) =>
               incident' = [incident EXCEPT ![i].assigned_to_user_id
                                               = q.updates.assigned_to_user_id]
         /\ ( /\ Responds(s)
              /\ \/ statusStep(inflight[s].inc, inflight[s].userRole,
                               q.caller, q.updates) = "write"
                 \/ assignStep(inflight[s].inc, inflight[s].userRole,
                               q.caller, q.updates) = "write" ) =>
               /\ inflight'[s].res.status = 200
               /\ inflight'[s].res.errors = <<>>
    ]_vars

\* the assignee's status update and the admin's reassignment ran together:
\* the reassignment was stored between the assignee's read and write, both
\* were answered 200, and the incident has the new status and the new
\* assignee
C23_Witness ==
    /\ inflight[1].req.caller = 1
    /\ inflight[1].req.updates.status = IncidentStatus.RESOLVED
    /\ inflight[1].userRole = TeamRole.USER
    /\ inflight[1].stale
    /\ inflight[1].res.status = 200
    /\ inflight[2].req.caller = 2
    /\ inflight[2].req.updates.assigned_to_user_id = 2
    /\ inflight[2].inc.assigned_to_user_id = 1
    /\ inflight[2].res.status = 200
    /\ incident[1].status = IncidentStatus.RESOLVED
    /\ incident[1].assigned_to_user_id = 2

\* the handler, run now on the stored incident and the caller's stored role,
\* would not write field f of slot s's request
NoLongerPermitted(s, f) ==
    fieldStep(f, findIncidentById(inflight[s].req.incidentId),
              getUserRoleInTeam(inflight[s].req.caller,
                                inflight[s].req.teamId),
              inflight[s].req.caller, inflight[s].req.updates) # "write"

\* C24: the permission check and the write are separate steps: a status or
\* assignee write whose caller's stored role or assignment no longer permits
\* it at the moment of the write is applied all the same, the request is
\* answered with success, and the step that ends the request leaves the
\* written incident as it is.
C24_StaleWriteApplied ==
    [][\A s \in Slots :
         LET q == inflight[s].req
             i == q.incidentId
         IN
         /\ (Writes(s, "status", i) /\ NoLongerPermitted(s, "status")) =>
               /\ incident'[i].status = q.updates.status
               /\ inflight'[s].stale
         /\ (Writes(s, "assign", i) /\ NoLongerPermitted(s, "assign")) =>
               /\ incident'[i].assigned_to_user_id
                    = q.updates.assigned_to_user_id
               /\ inflight'[s].stale
         /\ (inflight[s].stale /\ inflight'[s] # inflight[s]) =>
               /\ incident' = incident
               /\ (Responds(s) => inflight'[s].res.status = 200)
    ]_vars

\* user 1 asked for a reassignment while a manager; the admin made user 1 a
\* user again after the handler had read the role and before its UPDATE,
\* which was applied and answered 200
C24_Witness ==
    /\ inflight[1].req.caller = 1
    /\ inflight[1].req.updates.assigned_to_user_id = 2
    /\ inflight[1].userRole = TeamRole.MANAGER
    /\ inflight[1].stale
    /\ inflight[1].res.status = 200
    /\ getUserRoleInTeam(1, 1) = TeamRole.USER
    /\ inflight[2].pc = "idle"
    /\ incident[1].assigned_to_user_id = 2

(* ---------------------------------------------------------------------- *)
(* The team tier (checked under SpecTeams)                                 *)
(* ---------------------------------------------------------------------- *)

\* the step answers a request to one of the three routes under
\* /teams/:teamId/members
AnswersTeamMembers ==
    \/ Answers("POST /teams/:teamId/members")
    \/ Answers("PUT /teams/:teamId/members/:userId")
    \/ Answers("DELETE /teams/:teamId/members/:userId")

\* C25: an add, change of role or removal under /teams/:teamId/members by a
\* caller who is not admin of that team is refused: 401 without identity,
\* 403 'not a member' for a non-member (an admin of another team included),
\* 403 'Insufficient permissions' for a manager or user of the team; every
\* refusal leaves the memberships unchanged, and every change of the
\* memberships is made for an admin of the team and only in that team.
C25_TeamTierNeedsTeamAdmin ==
    [][AnswersTeamMembers =>
          /\ req.caller = Undefined => res'.status = 401
          /\ ( /\ req.caller # Undefined
               /\ getUserRoleInTeam(req.caller, req.teamId) = NullRole ) =>
                /\ res'.status = 403
                /\ res'.message = "You are not a member of this team"
          /\ getUserRoleInTeam(req.caller, req.teamId)
                \in {TeamRole.USER, TeamRole.MANAGER} =>
                /\ res'.status = 403
                /\ res'.message = "Insufficient permissions in this team"
          /\ Refused => team_user' = team_user
          /\ team_user' # team_user =>
                /\ getUserRoleInTeam(req.caller, req.teamId) = TeamRole.ADMIN
                /\ \A m \in (team_user \ team_user')
                             \cup (team_user' \ team_user) :
                      m.team_id = req.teamId
    ]_vars

\* the admin of another team asked to add a user to a team they are not a
\* member of: refused
C25_Witness ==
    /\ res.route = "POST /teams/:teamId/members"
    /\ req.caller # Undefined
    /\ \E m \in team_user :
          /\ m.user_id = req.caller
          /\ m.team_id # req.teamId
          /\ m.role = TeamRole.ADMIN
    /\ getUserRoleInTeam(req.caller, req.teamId) = NullRole
    /\ req.userId \in users
    /\ req.role = "user"
    /\ ~isUserInTeam(req.userId, req.teamId)
    /\ res.status = 403
    /\ res.message = "You are not a member of this team"

(* ---------------------------------------------------------------------- *)
(* SpecTeamsLoop: team-scoped membership requests one after another, each  *)
(* run to its response, starting from teams that have only admins          *)
(* ---------------------------------------------------------------------- *)

InitTeamsLoop ==
    /\ users = UserIds
    /\ team = TeamIds
    /\ team_user \in {t \in MembershipTables(users, team) :
                         \A m \in t : m.role = TeamRole.ADMIN}
    /\ platform_manager = {}
    /\ incident = <<>>
    /\ req = NoRequest
    /\ res = NoResponse
    /\ call = NoCall
    /\ formerAssignees = {}
    /\ inflight = NoInflight

NextTeamsLoop ==
    \E r \in TeamRequests :
        \/ /\ r.route = "POST /teams/:teamId/members"
           /\ Handle(r, TeamPostMember(r.caller, r.teamId, r.userId, r.role))
        \/ /\ r.route = "PUT /teams/:teamId/members/:userId"
           /\ Handle(r, TeamPutMember(r.caller, r.teamId, r.userId, r.role))
        \/ /\ r.route = "DELETE /teams/:teamId/members/:userId"
           /\ Handle(r, TeamDeleteMember(r.caller, r.teamId, r.userId))

SpecTeamsLoop == InitTeamsLoop /\ [][NextTeamsLoop]_vars

\* the users who hold role admin in team t
TeamAdmins(t) ==
    {m.user_id : m \in {n \in team_user :
                           n.team_id = t /\ n.role = TeamRole.ADMIN}}

\* C26: no request under /teams/:teamId/members, whatever requests were
\* served before it, changes the set of users who hold role admin in any
\* team.
C26_TeamTierKeepsAdmins ==
    [][\A t \in TeamIds :
          {m.user_id : m \in {n \in team_user' :
                                 n.team_id = t /\ n.role = TeamRole.ADMIN}}
            = TeamAdmins(t)]_vars

\* after an add and a removal served for the team's admin the team has its
\* one admin and no other member
C26_Witness ==
    /\ res.route = "DELETE /teams/:teamId/members/:userId"
    /\ res.status = 200
    /\ TeamAdmins(req.teamId) = {req.caller}
    /\ \A m \in team_user : m.role = TeamRole.ADMIN

(* ---------------------------------------------------------------------- *)
(* SpecReads: one request that reads or updates incidents (the team's      *)
(* list, one incident, the two dashboard lists, PATCH), from every         *)
(* membership table and incidents of team 1                                *)
(* ---------------------------------------------------------------------- *)

ReadRoutes ==
    {"GET /teams/:teamId/incidents", "GET /teams/:teamId/incidents/:incidentId",
     "GET /dashboard/my-incidents", "GET /dashboard/assigned-incidents"}

ReadRequests ==
    {Request(rt, c, t, Undefined, "undefined", Undefined, NoUpdates) :
        rt \in {"GET /teams/:teamId/incidents"}, c \in Callers,
        t \in TeamIds}
    \cup
    {Request(rt, c, t, Undefined, "undefined", i, NoUpdates) :
        rt \in {"GET /teams/:teamId/incidents/:incidentId"}, c \in Callers,
        t \in TeamIds, i \in 1 .. MaxIncidents}
    \cup
    {Request(rt, c, Undefined, Undefined, "undefined", Undefined, NoUpdates) :
        rt \in {"GET /dashboard/my-incidents",
                "GET /dashboard/assigned-incidents"}, c \in Callers}
    \cup
    {r \in IncidentRequests :
        /\ r.route = "PATCH /teams/:teamId/incidents/:incidentId"
        /\ r.updates.description = UndefinedStr}

InitReads ==
    /\ users = UserIds
    /\ team = TeamIds
    /\ team_user \in MembershipTables(users, team)
    /\ platform_manager = {}
    /\ incident \in IncidentTables(IncidentRows(users, {1},
                       {IncidentStatus.PENDING, IncidentStatus.RESOLVED}))
    /\ req \in ReadRequests
    /\ res = NoResponse
    /\ call = NoCall
    /\ formerAssignees = {}
    /\ inflight = NoInflight

NextReads ==
    \/ Serve("GET /teams/:teamId/incidents",
             GetTeamIncidents(req.caller, req.teamId))
    \/ Serve("GET /teams/:teamId/incidents/:incidentId",
             GetIncident(req.caller, req.teamId, req.incidentId))
    \/ Serve("GET /dashboard/my-incidents", DashboardMyIncidents(req.caller))
    \/ Serve("GET /dashboard/assigned-incidents",
             DashboardAssignedIncidents(req.caller))
    \/ Serve("PATCH /teams/:teamId/incidents/:incidentId",
             PatchIncident(req.caller, req.teamId, req.incidentId,
                           req.updates))

SpecReads == InitReads /\ [][NextReads]_vars

\* C27: a GET or PATCH of /teams/:teamId/incidents/:incidentId that is
\* answered 200 concerns an incident of team teamId, returns only that
\* incident, and was sent by a member of that team; every change of an
\* incident is such a request's; for a member of teamId an incident of
\* another team is answered 'Incident not found'; a caller who is not a
\* member of the incident's team, its reporter or assignee included, is
\* refused, gets no incident and changes nothing.
C27_SingleIncidentStaysInItsTeam ==
    [][( \/ Answers("GET /teams/:teamId/incidents/:incidentId")
         \/ Answers("PATCH /teams/:teamId/incidents/:incidentId") ) =>
          /\ (res'.status = 200 \/ incident' # incident) =>
                /\ req.incidentId \in DOMAIN incident
                /\ incident[req.incidentId].team_id = req.teamId
                /\ isUserInTeam(req.caller, req.teamId)
                /\ \A row \in res'.incidents :
                      row.id = req.incidentId /\ row.team_id = req.teamId
          /\ ( /\ isUserInTeam(req.caller, req.teamId)
               /\ req.incidentId \in DOMAIN incident
               /\ incident[req.incidentId].team_id # req.teamId ) =>
                /\ res'.status = 404
                /\ res'.message = "Incident not found"
                /\ incident' = incident
          /\ ( /\ req.incidentId \in DOMAIN incident
               /\ ~isUserInTeam(req.caller,
                                incident[req.incidentId].team_id) ) =>
                /\ Refused
                /\ res'.incidents = {}
                /\ incident' = incident
    ]_vars

\* the incident's reporter and assignee, a member of team 2 only, asked for
\* the incident of team 1 through team 2: not found
C27_Witness ==
    /\ res.route = "GET /teams/:teamId/incidents/:incidentId"
    /\ req.incidentId \in DOMAIN incident
    /\ incident[req.incidentId].reported_by_user_id = req.caller
    /\ incident[req.incidentId].assigned_to_user_id = req.caller
    /\ incident[req.incidentId].team_id # req.teamId
    /\ isUserInTeam(req.caller, req.teamId)
    /\ ~isUserInTeam(req.caller, incident[req.incidentId].team_id)
    /\ res.status = 404
    /\ res.incidents = {}

(* ---------------------------------------------------------------------- *)
(* SpecPatchFields: one PATCH of an incident of team 1 whose body names    *)
(* any combination of title, description, status and assignee              *)
(* ---------------------------------------------------------------------- *)

FieldBodies ==
    [title : {UndefinedStr, <<"a">>, <<" ">>},
     description : {UndefinedStr, <<"a">>},
     status : {"undefined", IncidentStatus.UNDER_REVIEW, "closed"},
     assigned_to_user_id : {Undefined, Null, 2}]

InitPatchFields ==
    /\ users = UserIds
    /\ team = TeamIds
    /\ team_user \in MembershipTables(users, {1})
    /\ platform_manager = {}
    /\ incident \in IncidentTables(IncidentRows(users, {1},
                                                {IncidentStatus.PENDING}))
    /\ req \in {Request("PATCH /teams/:teamId/incidents/:incidentId", c, 1,
                         Undefined, "undefined", i, b) :
                    c \in UserIds, i \in 1 .. MaxIncidents,
                    b \in FieldBodies}
    /\ res = NoResponse
    /\ call = NoCall
    /\ formerAssignees = {}
    /\ inflight = NoInflight

NextPatchFields ==
    Serve("PATCH /teams/:teamId/incidents/:incidentId",
          PatchIncident(req.caller, req.teamId, req.incidentId, req.updates))

SpecPatchFields == InitPatchFields /\ [][NextPatchFields]_vars

\* C28: in a PATCH naming several fields each field is decided on its own,
\* in the order title, description, status, assignee, from the incident and
\* the role read at the start: title and description for the reporter, a
\* manager or an admin (a blank title being refused), a valid status for a
\* manager, an admin or the assignee, the assignee for a manager or an
\* admin; every accepted field is written and every other field is left as
\* stored; the refusals are listed in that order; the answer is 403
\* 'Permission denied' exactly when a field was refused and none written,
\* and 200 otherwise.
C28_FieldsDecidedIndependently ==
    [][PatchReachesFields =>
        LET old == incident[req.incidentId]
            u == req.updates
            lead == getUserRoleInTeam(req.caller, req.teamId)
                       \in {TeamRole.MANAGER, TeamRole.ADMIN}
            own == old.reported_by_user_id = req.caller
            titleNamed == u.title # UndefinedStr
            titleWritten == titleNamed /\ (own \/ lead) /\ trim(u.title) # <<>>
            descNamed == u.description # UndefinedStr
            descWritten == descNamed /\ (own \/ lead)
            statusNamed == u.status # "undefined"
            statusWritten ==
                /\ u.status \in validStatuses
                /\ (lead \/ old.assigned_to_user_id = req.caller)
            assignNamed == u.assigned_to_user_id # Undefined
            assignWritten == assignNamed /\ lead
            written == titleWritten \/ descWritten \/ statusWritten
                          \/ assignWritten
            refusals ==
                (IF titleNamed /\ ~titleWritten
                 THEN <<IF own \/ lead THEN "Title cannot be empty"
                        ELSE "You do not have permission to edit the title">>
                 ELSE <<>>)
                \o (IF descNamed /\ ~descWritten
                    THEN <<"You do not have permission to edit the description">>
                    ELSE <<>>)
                \o (IF statusNamed /\ ~statusWritten
                    THEN <<IF u.status \in validStatuses
                           THEN "You do not have permission to edit the status"
                           ELSE "Invalid status. Must be one of: pending, under_review, escalated, resolved">>
                    ELSE <<>>)
                \o (IF assignNamed /\ ~assignWritten
                    THEN <<"You do not have permission to assign incidents">>
                    ELSE <<>>)
        IN
        /\ incident'[req.incidentId].title =
              IF titleWritten THEN trim(u.title) ELSE old.title
        /\ incident'[req.incidentId].description =
              IF descWritten THEN trim(u.description) ELSE old.description
        /\ incident'[req.incidentId].status =
              IF statusWritten THEN u.status ELSE old.status
        /\ incident'[req.incidentId].assigned_to_user_id =
              IF assignWritten THEN u.assigned_to_user_id
              ELSE old.assigned_to_user_id
        /\ incident'[req.incidentId].reported_by_user_id
              = old.reported_by_user_id
        /\ incident'[req.incidentId].team_id = old.team_id
        /\ res'.errors = refusals
        /\ res'.status = IF refusals # <<>> /\ ~written THEN 403 ELSE 200
        /\ res'.status = 403 => res'.message = "Permission denied"
    ]_vars

\* the assignee, a user-role member who is not the reporter, sent a title, a
\* status and an assignee: the status was written, the other two refused,
\* and the answer is 200 with both refusals
C28_Witness ==
    /\ res.status = 200
    /\ getUserRoleInTeam(req.caller, req.teamId) = TeamRole.USER
    /\ req.updates.title = <<"a">>
    /\ req.updates.status = IncidentStatus.UNDER_REVIEW
    /\ req.updates.assigned_to_user_id = 2
    /\ res.errors = <<"You do not have permission to edit the title",
                      "You do not have permission to assign incidents">>
    /\ incident[req.incidentId].status = IncidentStatus.UNDER_REVIEW
    /\ incident[req.incidentId].title = <<"b">>
    /\ incident[req.incidentId].assigned_to_user_id = req.caller

(* ---------------------------------------------------------------------- *)
(* What the read endpoints return (checked under SpecReads)                *)
(* ---------------------------------------------------------------------- *)

\* C29: every incident in the answer of a read endpoint (the team's list,
\* one incident, the dashboard's my-incidents and assigned-incidents)
\* belongs to a team in which the caller holds a membership when the
\* request is served.
C29_ReadsOnlyFromCallersTeams ==
    [][\A rt \in ReadRoutes :
          Answers(rt) =>
             \A row \in res'.incidents :
                isUserInTeam(req.caller, row.team_id)]_vars

(* ---------------------------------------------------------------------- *)
(* Titles (checked under SpecIncidents)                                    *)
(* ---------------------------------------------------------------------- *)

\* every stored title has a character left after trimming
TitlesNonEmpty ==
    \A i \in DOMAIN incident :
        /\ incident[i].title \notin {UndefinedStr, NullStr}
        /\ trim(incident[i].title) # <<>>

\* C30: every stored title is non-empty after trimming, before and after
\* every create and update request; a create request with no title or a
\* blank one is answered 400 and creates nothing; a title update with a
\* blank title is refused and leaves the incident as it is, with 'Title
\* cannot be empty' when the caller may edit the title.
C30_TitlesStayNonEmpty ==
    /\ TitlesNonEmpty
    /\ [][/\ TitlesNonEmpty'
          /\ ( /\ Answers("POST /teams/:teamId/incidents")
               /\ \/ req.updates.title = UndefinedStr
                  \/ trim(req.updates.title) = <<>> ) =>
                /\ Refused
                /\ incident' = incident
                /\ isUserInTeam(req.caller, req.teamId) =>
                      /\ res'.status = 400
                      /\ res'.message = "Title is required"
          /\ ( /\ PatchReachesFields
               /\ req.updates.title # UndefinedStr
               /\ trim(req.updates.title) = <<>> ) =>
                /\ res'.status = 403
                /\ incident' = incident
                /\ canEditTitle(incident[req.incidentId],
                                getUserRoleInTeam(req.caller, req.teamId),
                                req.caller) =>
                      res'.errors = <<"Title cannot be empty">>
         ]_vars

\* the reporter sent a title of one blank: refused, and the title is the
\* stored one
C30_Witness ==
    /\ res.route = "PATCH /teams/:teamId/incidents/:incidentId"
    /\ req.updates.title = <<" ">>
    /\ req.incidentId \in DOMAIN incident
    /\ incident[req.incidentId].reported_by_user_id = req.caller
    /\ res.status = 403
    /\ res.errors = <<"Title cannot be empty">>
    /\ incident[req.incidentId].title = <<"b">>

====
